---- MODULE Spec2Model ----
(***************************************************************************)
(* BlueFin-LSM: the search-and-evaluation control system.                  *)
(*                                                                         *)
(*   sim_and_opt/bluefin_motor.py      evaluate_motor, the generation loop *)
(*   sim_and_opt/old optimization/     the two older generation loops      *)
(*   sim_and_opt/force_random_search.py  the random search loop            *)
(*   sim_and_opt/analysis.py           the Pareto / scalarized-best reader *)
(*                                                                         *)
(* Numbers.  Python floats are modelled by exact values of the form        *)
(* (a + b*eps)/d, written [a |-> a, b |-> b, d |-> d], with a, b integers, *)
(* d a positive integer and eps the constant EPSILON = 1e-9 of             *)
(* bluefin.configs.constants.  The b-limb is what keeps EPSILON exact next *)
(* to quantities of the order of volts and watts; order is lexicographic   *)
(* on (a, b), which is the real order as long as |b*d| < 10^9.             *)
(*                                                                         *)
(* Raises.  A function that can raise returns [exc, value]: exc is "none"  *)
(* and value what it returned, or exc names the exception.                 *)
(***************************************************************************)
EXTENDS Integers, Sequences, FiniteSets, TLC

VARIABLES
    \* ---- evaluate_motor applied to one candidate (bluefin_motor.py) ----
    ev_pc,          \* "ready" | "done"
    ev_individual,  \* the DEAP individual handed to evaluate_motor
    ev_outcome,     \* what the simulator does for it
    ev_result       \* what evaluate_motor returned / raised

evalVars == <<ev_pc, ev_individual, ev_outcome, ev_result>>

VARIABLES
    \* ---- the generation loop of one of the three scripts ----
    script,           \* which script's loop runs
    pc,               \* position in the loop
    generation,       \* the loop variable of `for generation in range(...)`
    population,       \* the current population (gene vectors)
    offspring,        \* the offspring of this generation
    cursor,           \* position of `for ind in offspring` (1-based)
    generation_data,  \* this generation's record, being filled
    result_output,    \* the run log in memory
    stored,           \* the run log file: [exists, data]
    simulator         \* the field solver: what it does for each geometry

loopVars == <<script, pc, generation, population, offspring, cursor, generation_data,
              result_output, stored, simulator>>

VARIABLES
    \* ---- the random search (force_random_search.py) ----
    search_pc,             \* position in the loop
    index,                 \* the loop variable of `for index in range(...)`
    STEP_SIZE,             \* the current step size
    stall,                 \* iterations without improvement
    best,                  \* best_force and the geometry it was reached with
    optimization_results,  \* the search log in memory
    results_file,          \* the search log file: [exists, data]
    motor,                 \* the candidate of this iteration
    solver_outcome         \* what the simulator does for it

searchVars == <<search_pc, index, STEP_SIZE, stall, best,
                optimization_results, results_file, motor,
                solver_outcome>>

VARIABLES
    \* ---- the log reader (analysis.py) ----
    analysis_pc,   \* "ready" | "done" | "raised"
    input_file,    \* the run log main() loads
    valid,         \* main's list `individuals`
    pareto_file,   \* OUTPUT_PARETO: [exists, data]
    best_file      \* OUTPUT_BEST: [exists, data]

analysisVars == <<analysis_pc, input_file, valid, pareto_file, best_file>>

VARIABLES
    \* ---- the scalarized-best reader (Analysis/weighted_best.py) ----
    reader_pc,        \* "ready" | "done"
    simulation_data,  \* the loaded run log
    best_motor,       \* find_best_motor's first result
    best_score        \* find_best_motor's second result

readerVars == <<reader_pc, simulation_data, best_motor, best_score>>

VARIABLES
    \* ---- analysis.pareto_front called on a list of individuals ----
    pf_individuals,  \* the list handed to pareto_front
    pf_front,        \* what the latest call returned
    pf_previous,     \* what the call before it returned
    pf_calls         \* the number of calls so far

paretoVars == <<pf_individuals, pf_front, pf_previous, pf_calls>>

VARIABLES
    \* ---- analysis.dominates called on two fitness tuples ----
    dom_pc,      \* "ready" | "done"
    dom_a,       \* the first tuple
    dom_b,       \* the second tuple
    dom_result   \* what dominates(a, b) returned

dominatesVars == <<dom_pc, dom_a, dom_b, dom_result>>

VARIABLES
    \* ---- two candidates evaluated by one script's toolbox.evaluate ----
    fit_script,  \* which script evaluates
    fit_pc,      \* "ready" | "done" | "aborted"
    fit_sweeps,  \* what the simulator does for each of the two candidates
    fits         \* the two fitness tuples

fitnessVars == <<fit_script, fit_pc, fit_sweeps, fits>>

vars == <<evalVars, loopVars, searchVars, analysisVars, readerVars,
          paretoVars, dominatesVars, fitnessVars>>

\* what each part of the model leaves alone
notEval == <<loopVars, searchVars, analysisVars, readerVars,
             paretoVars, dominatesVars, fitnessVars>>

notLoop == <<evalVars, searchVars, analysisVars, readerVars,
             paretoVars, dominatesVars, fitnessVars>>

notSearch == <<evalVars, loopVars, analysisVars, readerVars,
               paretoVars, dominatesVars, fitnessVars>>

notAnalysis == <<evalVars, loopVars, searchVars, readerVars,
                 paretoVars, dominatesVars, fitnessVars>>

notReader == <<evalVars, loopVars, searchVars, analysisVars,
               paretoVars, dominatesVars, fitnessVars>>

notPareto == <<evalVars, loopVars, searchVars, analysisVars,
               readerVars, dominatesVars, fitnessVars>>

notDominates == <<evalVars, loopVars, searchVars, analysisVars,
                  readerVars, paretoVars, fitnessVars>>

notFitness == <<evalVars, loopVars, searchVars, analysisVars,
                readerVars, paretoVars, dominatesVars>>

-----------------------------------------------------------------------------
(* Exact arithmetic *)

IAbs(i) == IF i < 0 THEN -i ELSE i

ISign(i) == IF i > 0 THEN 1 ELSE IF i < 0 THEN -1 ELSE 0

RECURSIVE GCD(_, _)
GCD(m, n) == IF n = 0 THEN m ELSE GCD(n, m % n)

Norm(a, b, d) ==
    LET g == GCD(GCD(IAbs(a), IAbs(b)), d)
    IN  [a |-> a \div g, b |-> b \div g, d |-> d \div g]

\* the rational n/d, d > 0
Q(n, d) == Norm(n, 0, d)

\* the integer i
N(i) == [a |-> i, b |-> 0, d |-> 1]

\* bluefin.configs.constants.EPSILON = 1e-9
EPSILON == [a |-> 0, b |-> 1, d |-> 1]

NAdd(x, y) == Norm(x.a * y.d + y.a * x.d, x.b * y.d + y.b * x.d, x.d * y.d)

NNeg(x) == [a |-> -x.a, b |-> -x.b, d |-> x.d]

NSub(x, y) == NAdd(x, NNeg(y))

NSign(x) == IF x.a # 0 THEN ISign(x.a) ELSE ISign(x.b)

NIsZero(x) == NSign(x) = 0

NLt(x, y) == NSign(NSub(x, y)) < 0

NGt(x, y) == NLt(y, x)

NLe(x, y) == ~NLt(y, x)

NAbs(x) == IF NSign(x) < 0 THEN NNeg(x) ELSE x

NMin(x, y) == IF NLt(y, x) THEN y ELSE x

NMax(x, y) == IF NGt(y, x) THEN y ELSE x

\* x / k for an integer k # 0
NDivInt(x, k) == Norm(ISign(k) * x.a, ISign(k) * x.b, x.d * IAbs(k))

\* x / y, y # 0.  A divisor with an eps part has no closed form here: the
\* quotient is then kept as the pair of its operands.
NDiv(x, y) ==
    IF y.b = 0
    THEN Norm(ISign(y.a) * x.a * y.d, ISign(y.a) * x.b * y.d, x.d * IAbs(y.a))
    ELSE [num |-> x, den |-> y]

RECURSIVE NSum(_)
NSum(s) == IF s = <<>> THEN N(0) ELSE NAdd(Head(s), NSum(Tail(s)))

RECURSIVE NSeqMax(_)
NSeqMax(s) == IF Len(s) = 1 THEN s[1] ELSE NMax(s[1], NSeqMax(Tail(s)))

RECURSIVE NSeqMin(_)
NSeqMin(s) == IF Len(s) = 1 THEN s[1] ELSE NMin(s[1], NSeqMin(Tail(s)))

-----------------------------------------------------------------------------
(* bluefin_motor.py: configuration *)

Voltage_Max == 35

Power_Max == 100

Inductance_Max == Q(1, 100)

Axial_Length_Bounds == <<Q(2, 10), N(10)>>

Axial_Spacing_Bounds == <<Q(12, 10), N(10)>>

Radial_Thickness_Bounds == <<Q(2, 10), N(10)>>

candidate_wire_diameters ==
    << Q(125, 1000), Q(16, 100), Q(2, 10), Q(25, 100), Q(315, 1000), Q(4, 10),
       Q(5, 10), Q(63, 100), Q(8, 10), N(1), Q(125, 100), Q(16, 10), N(2),
       Q(25, 10) >>

\* the fitness returned for a failed or constraint-violating candidate
FAILED_FITNESS ==
    << N(-1000000), N(-1000000), N(1000000), N(1000000), N(1000000),
       N(1000000) >>

-----------------------------------------------------------------------------
(* bluefin_motor.py: simulate and evaluate_motor *)

\* Python's round(x) for a rational x: to the nearest integer, a tie to the
\* even neighbour.
PyRound(x) ==
    LET f  == x.a \div x.d
        r2 == 2 * (x.a - f * x.d)
    IN  IF r2 < x.d THEN f
        ELSE IF r2 > x.d THEN f + 1
        ELSE IF f % 2 = 0 THEN f ELSE f + 1

IMin(i, j) == IF i < j THEN i ELSE j

IMax(i, j) == IF i > j THEN i ELSE j

\* Python's None
PyNone == [py |-> "None"]

Returned(value) == [exc |-> "none", value |-> value]

Raised(e) == [exc |-> e, value |-> <<>>]

\* a variant without the except clause: the exception leaves simulate
simulate_Uncaught(slot_thickness, slot_axial_length, slot_axial_spacing, back_thickness, wire_diameter, outcome) ==
    IF outcome.raised # "none" THEN [exc |-> "Exception", value |-> <<>>]
    ELSE [exc |-> "none", value |-> outcome.results]

\* An outcome is what the simulator does for one candidate: `raised` names
\* the call that throws ("none" when none does) and `results` is what
\* rotational_analysis returns otherwise.
\* try: ... return results / except Exception: return []
simulate(slot_thickness, slot_axial_length, slot_axial_spacing, back_thickness, wire_diameter, outcome) ==
    IF outcome.raised # "none" THEN Returned(<<>>)
    ELSE Returned(outcome.results)

time_constant(inductance, resistance) == NDiv(inductance, resistance)

resistance(voltage, current) == NAbs(NDiv(voltage, current))

ripple_peak_to_peak(forces) == NSub(NSeqMax(forces), NSeqMin(forces))

\* a variant that takes the first phase whatever the currents
PeakIndex_First(i_phase, j, peak) == peak

\* max(range(len(i_phase)), key=lambda j: abs(i_phase[j])): the first index
\* of largest magnitude
RECURSIVE PeakIndex(_, _, _)
PeakIndex(i_phase, j, peak) ==
    IF j > Len(i_phase) THEN peak
    ELSE IF NGt(NAbs(i_phase[j]), NAbs(i_phase[peak]))
         THEN PeakIndex(i_phase, j + 1, j)
         ELSE PeakIndex(i_phase, j + 1, peak)

\* a variant without the guard
EmptyResults_Never(results) == FALSE

\* `if not results`
EmptyResults(results) == results = <<>>

\* a variant without the EPSILON guard
ForcePerWattDivisor_NoEps(avg_power) == avg_power

\* avg_force / (avg_power + EPSILON): the divisor
ForcePerWattDivisor(avg_power) == NAdd(avg_power, EPSILON)

\* a variant with the ceiling ten times too high
PowerExceeded_Lax(avg_power) == NGt(avg_power, N(10 * Power_Max))

\* `if avg_power > Power_Max`
PowerExceeded(avg_power) == NGt(avg_power, N(Power_Max))

\* `if inductance > Inductance_Max`
InductanceExceeded(inductance) == NGt(inductance, Inductance_Max)

\* `if voltage > Voltage_Max`
VoltageExceeded(voltage) == NGt(voltage, N(Voltage_Max))

\* `if abs(current) > EPSILON`
CurrentUsable(current) == NGt(NAbs(current), EPSILON)

\* The loop over the steps (phase with the highest current): a raise, a
\* constraint failure, or the two lists it accumulates.
RECURSIVE ScanSteps(_, _, _, _)
ScanSteps(results, k, resistances, selected_inductances) ==
    IF k > Len(results)
    THEN [kind |-> "lists", resistances |-> resistances,
          selected_inductances |-> selected_inductances]
    ELSE
      LET outputs == results[k].outputs IN
      IF \/ "phase_voltage" \notin DOMAIN outputs
         \/ "phase_current" \notin DOMAIN outputs
         \/ "phase_inductance" \notin DOMAIN outputs
      THEN [kind |-> "KeyError"]
      ELSE
        LET v_phase == outputs.phase_voltage
            i_phase == outputs.phase_current
            l_phase == outputs.phase_inductance
        IN
        IF i_phase = <<>> THEN [kind |-> "ValueError"]
        ELSE
          LET idx        == PeakIndex(i_phase, 2, 1)
              current    == i_phase[idx]
          IN
          IF idx > Len(v_phase) \/ idx > Len(l_phase)
          THEN [kind |-> "IndexError"]
          ELSE
            LET voltage    == v_phase[idx]
                inductance == l_phase[idx]
            IN
            IF InductanceExceeded(inductance) THEN [kind |-> "failed"]
            ELSE IF VoltageExceeded(voltage) THEN [kind |-> "failed"]
            ELSE IF CurrentUsable(current)
            THEN ScanSteps(results, k + 1,
                           Append(resistances, resistance(voltage, current)),
                           Append(selected_inductances, inductance))
            ELSE ScanSteps(results, k + 1, resistances, selected_inductances)

evaluate_motor(individual, outcome) ==
    LET slot_thickness     == individual[1]
        slot_axial_length  == individual[2]
        slot_axial_spacing == individual[3]
        back_thickness     == individual[4]
        wire_index ==
            IMax(0, IMin(Len(candidate_wire_diameters) - 1,
                         PyRound(individual[5])))
        wire_diameter == candidate_wire_diameters[wire_index + 1]
        call == simulate(slot_thickness, slot_axial_length,
                         slot_axial_spacing, back_thickness,
                         wire_diameter, outcome)
        results == call.value
    IN
    IF call.exc # "none" THEN Raised(call.exc)
    ELSE IF EmptyResults(results) THEN Returned(FAILED_FITNESS)
    ELSE IF \E k \in 1..Len(results) :
                \/ "force_lorentz" \notin DOMAIN results[k].outputs
                \/ "phase_power" \notin DOMAIN results[k].outputs
    THEN Raised("KeyError")
    ELSE IF \E k \in 1..Len(results) : results[k].outputs.force_lorentz = <<>>
    THEN Raised("IndexError")
    ELSE
      LET forces == [k \in 1..Len(results) |->
                        results[k].outputs.force_lorentz[1]]
          powers == [k \in 1..Len(results) |->
                        NSum(results[k].outputs.phase_power)]
      IN
      IF Len(forces) = 0 THEN Raised("ZeroDivisionError")
      ELSE
        LET avg_force == NDivInt(NSum(forces), Len(forces))
            avg_power == NDivInt(NSum(powers), Len(powers))
            divisor   == ForcePerWattDivisor(avg_power)
        IN
        IF NIsZero(divisor) THEN Raised("ZeroDivisionError")
        ELSE
          LET force_per_watt == NDiv(avg_force, divisor) IN
          IF PowerExceeded(avg_power) THEN Returned(FAILED_FITNESS)
          ELSE
            LET ripple_force == ripple_peak_to_peak(forces)
                scan == ScanSteps(results, 1, <<>>, <<>>)
            IN
            IF scan.kind = "failed" THEN Returned(FAILED_FITNESS)
            ELSE IF scan.kind # "lists" THEN Raised(scan.kind)
            ELSE
              LET resistances == scan.resistances
                  selected_inductances == scan.selected_inductances
                  avg_resistance ==
                      IF resistances # <<>>
                      THEN NDivInt(NSum(resistances), Len(resistances))
                      ELSE EPSILON
                  avg_inductance ==
                      IF selected_inductances # <<>>
                      THEN NDivInt(NSum(selected_inductances),
                                   Len(selected_inductances))
                      ELSE N(0)
                  tau == IF NGt(avg_resistance, EPSILON)
                         THEN time_constant(avg_inductance, avg_resistance)
                         ELSE N(0)
              IN
              Returned(<< avg_force, force_per_watt, ripple_force,
                          avg_inductance, avg_resistance, tau >>)

-----------------------------------------------------------------------------
(* old optimization/bluefin_optimization.py: simulate and evaluate_motor *)

VOLTAGE_MAX == 35

POWER_MAX == 100

INDUCTANCE_MAX == Q(2, 100)

UPPER_BOUND == 20

LOWER_BOUND == Q(2, 10)

\* return (0.0, 0.0, 0.0, 0.0)
ZERO_FITNESS == << N(0), N(0), N(0), N(0) >>

\* try: ... `if not results: return []` / return results
\* except Exception: return []
simulate_bluefin_optimization(slot_thickness, slot_axial_length, slot_axial_spacing, wire_diameter, outcome) ==
    IF outcome.raised # "none" THEN Returned(<<>>)
    ELSE IF outcome.results = <<>> THEN Returned(<<>>)
    ELSE Returned(outcome.results)

\* phase_inductances_over_time after one more step: phase j's list gains
\* inductance_values[j]
AppendInductances(phase_inductances_over_time, inductance_values) ==
    [j \in 1..IMax(Len(phase_inductances_over_time), Len(inductance_values)) |->
        IF j > Len(inductance_values) THEN phase_inductances_over_time[j]
        ELSE Append(IF j <= Len(phase_inductances_over_time)
                    THEN phase_inductances_over_time[j] ELSE <<>>,
                    inductance_values[j])]

\* `for i, step in enumerate(results)`: a constraint failure or the totals
RECURSIVE AccumulateSteps(_, _, _)
AccumulateSteps(results, k, acc) ==
    IF k > Len(results) THEN [kind |-> "totals", acc |-> acc]
    ELSE IF "outputs" \notin DOMAIN results[k]
    THEN AccumulateSteps(results, k + 1, acc)
    ELSE
      LET outputs == results[k].outputs IN
      IF /\ "phase_voltage" \in DOMAIN outputs
         /\ \E j \in 1..Len(outputs.phase_voltage) :
               NGt(NAbs(outputs.phase_voltage[j]), N(VOLTAGE_MAX))
      THEN [kind |-> "failed"]
      ELSE IF \/ "force_lorentz" \notin DOMAIN outputs
              \/ outputs.force_lorentz = <<>>
      THEN AccumulateSteps(results, k + 1, acc)
      ELSE
        LET force_values == outputs.force_lorentz
            acc1 == [acc EXCEPT
                       !.forces = Append(@, force_values[1]),
                       !.total_force = NAdd(@, force_values[1])]
        IN
        IF \/ "phase_power" \notin DOMAIN outputs
           \/ "phase_inductance" \notin DOMAIN outputs
        THEN AccumulateSteps(results, k + 1, acc1)
        ELSE
          LET power_values      == outputs.phase_power
              inductance_values == outputs.phase_inductance
              acc2 == [acc1 EXCEPT
                         !.total_power =
                             IF power_values # <<>>
                             THEN NAdd(@, NDivInt(NSum(power_values),
                                                  Len(power_values)))
                             ELSE @,
                         !.phase_inductances_over_time =
                             AppendInductances(@, inductance_values),
                         !.samples = @ + 1]
          IN AccumulateSteps(results, k + 1, acc2)

evaluate_motor_bluefin_optimization(individual, outcome) ==
    LET slot_thickness     == individual[1]
        slot_axial_length  == individual[2]
        slot_axial_spacing == individual[3]
        wire_index ==
            IMax(0, IMin(Len(candidate_wire_diameters) - 1,
                         PyRound(individual[4])))
        wire_diameter == candidate_wire_diameters[wire_index + 1]
        call == simulate_bluefin_optimization(
                    slot_thickness, slot_axial_length, slot_axial_spacing,
                    wire_diameter, outcome)
        results == call.value
    IN
    IF call.exc # "none" THEN Raised(call.exc)
    ELSE IF results = <<>> THEN Returned(ZERO_FITNESS)
    ELSE
      LET scan == AccumulateSteps(results, 1,
                      [total_force |-> N(0), total_power |-> N(0),
                       phase_inductances_over_time |-> <<>>,
                       samples |-> 0, forces |-> <<>>])
      IN
      IF scan.kind = "failed" THEN Returned(ZERO_FITNESS)
      ELSE IF scan.acc.samples = 0 THEN Returned(ZERO_FITNESS)
      ELSE
        LET acc       == scan.acc
            avg_force == NDivInt(acc.total_force, acc.samples)
            avg_power == NDivInt(acc.total_power, acc.samples)
            avg_inductance_per_phase ==
                [j \in 1..Len(acc.phase_inductances_over_time) |->
                    NDivInt(NSum(acc.phase_inductances_over_time[j]),
                            Len(acc.phase_inductances_over_time[j]))]
            avg_inductance ==
                IF avg_inductance_per_phase # <<>>
                THEN NDivInt(NSum(avg_inductance_per_phase),
                             Len(avg_inductance_per_phase))
                ELSE N(0)
        IN
        IF NLt(NAbs(avg_power), EPSILON) THEN Returned(ZERO_FITNESS)
        ELSE IF NGt(avg_power, N(POWER_MAX)) THEN Returned(ZERO_FITNESS)
        ELSE IF NGt(avg_inductance, INDUCTANCE_MAX)
        THEN Returned(ZERO_FITNESS)
        ELSE
          LET force_per_watt ==
                  IF NGt(NAbs(avg_power), EPSILON)
                  THEN NDiv(avg_force, NAbs(avg_power))
                  ELSE N(0)
              ripple_force ==
                  IF acc.forces # <<>> THEN ripple_peak_to_peak(acc.forces)
                  ELSE N(0)
          IN Returned(<< avg_force, force_per_watt, avg_inductance,
                         ripple_force >>)

-----------------------------------------------------------------------------
(* old optimization/simple_deap_optimization.py: simulate and              *)
(* evaluate_motor                                                          *)

VOLTAGE_MAX_simple_deap == 56

POWER_MAX_simple_deap == 250

INDUCTANCE_MAX_simple_deap == Q(5, 100)

candidate_wire_diameters_simple_deap ==
    << Q(125, 1000), Q(16, 100), Q(2, 10), Q(25, 100), Q(315, 1000), Q(4, 10),
       Q(5, 10), Q(63, 100), Q(8, 10) >>

\* return (0.0, 0.0, 0.0)
ZERO_FITNESS_simple_deap == << N(0), N(0), N(0) >>

NoneTuple == << PyNone, PyNone, PyNone, PyNone >>

\* try: ... return results / except Exception: return (None, None, None, None)
simulate_simple_deap(slot_thickness, slot_axial_length, wire_diameter, outcome) ==
    IF outcome.raised # "none" THEN Returned(NoneTuple)
    ELSE Returned(outcome.results)

\* `for step in results`: a raise, a zero fitness, or the totals
RECURSIVE SumSteps(_, _, _)
SumSteps(results, k, acc) ==
    IF k > Len(results) THEN [kind |-> "totals", acc |-> acc]
    ELSE IF \/ "outputs" \notin DOMAIN results[k]
            \/ DOMAIN results[k].outputs = {}
    THEN SumSteps(results, k + 1, acc)
    ELSE
      LET outputs == results[k].outputs IN
      IF /\ "phase_voltage" \in DOMAIN outputs
         /\ \E j \in 1..Len(outputs.phase_voltage) :
               NGt(NAbs(outputs.phase_voltage[j]), N(VOLTAGE_MAX_simple_deap))
      THEN [kind |-> "failed"]
      ELSE IF \/ "force_lorentz" \notin DOMAIN outputs
              \/ "phase_power" \notin DOMAIN outputs
              \/ "phase_inductance" \notin DOMAIN outputs
      THEN [kind |-> "failed"]
      ELSE IF outputs.force_lorentz = <<>> THEN [kind |-> "IndexError"]
      ELSE
        SumSteps(results, k + 1,
            [total_force |-> NAdd(acc.total_force, outputs.force_lorentz[1]),
             total_power |-> NAdd(acc.total_power, NSum(outputs.phase_power)),
             total_inductance |->
                 NAdd(acc.total_inductance, NSum(outputs.phase_inductance)),
             total_inductance_values |->
                 acc.total_inductance_values + Len(outputs.phase_inductance),
             samples |-> acc.samples + 1])

evaluate_motor_simple_deap(individual, outcome) ==
    LET slot_thickness    == individual[1]
        slot_axial_length == individual[2]
        wire_index        == PyRound(individual[3])
        n                 == Len(candidate_wire_diameters_simple_deap)
    IN
    IF wire_index < -n \/ wire_index > n - 1 THEN Raised("IndexError")
    ELSE
      LET wire_diameter ==
              candidate_wire_diameters_simple_deap[
                  IF wire_index < 0 THEN wire_index + n + 1
                  ELSE wire_index + 1]
          call == simulate_simple_deap(slot_thickness, slot_axial_length,
                                       wire_diameter, outcome)
          results == call.value
      IN
      IF call.exc # "none" THEN Raised(call.exc)
      ELSE IF results = <<>> \/ results = NoneTuple
      THEN Returned(ZERO_FITNESS_simple_deap)
      ELSE
        LET scan == SumSteps(results, 1,
                        [total_force |-> N(0), total_power |-> N(0),
                         total_inductance |-> N(0),
                         total_inductance_values |-> 0, samples |-> 0])
        IN
        IF scan.kind = "failed" THEN Returned(ZERO_FITNESS_simple_deap)
        ELSE IF scan.kind # "totals" THEN Raised(scan.kind)
        ELSE IF scan.acc.samples = 0 THEN Returned(ZERO_FITNESS_simple_deap)
        ELSE
          LET acc       == scan.acc
              avg_force == NDivInt(acc.total_force, acc.samples)
              avg_power == NDivInt(acc.total_power, acc.samples)
              avg_inductance ==
                  IF acc.total_inductance_values > 0
                  THEN NDivInt(acc.total_inductance,
                               acc.total_inductance_values)
                  ELSE N(0)
          IN
          IF \/ NGt(avg_power, N(POWER_MAX_simple_deap))
             \/ NGt(avg_inductance, INDUCTANCE_MAX_simple_deap)
          THEN Returned(ZERO_FITNESS_simple_deap)
          ELSE Returned(<< avg_power, avg_force, avg_inductance >>)

-----------------------------------------------------------------------------
(* The sweeps evaluate_motor is applied to.                                *)
(* A step is what rotational_analysis records at one displacement: the     *)
(* requested channels, each a vector indexed by phase.  Phase power is a   *)
(* dissipated power and is never negative.                                 *)

MaxSteps == 2

I3(x, y, z) == << N(x), N(y), N(z) >>

mH == Q(1, 1000)

\* (current, voltage, inductance) per phase
PhasePatterns ==
    { \* within every ceiling; phase a carries the peak current
      [i |-> I3(2, -1, -1), v |-> I3(12, -6, -6), l |-> << mH, mH, mH >>],
      \* phase a is above Voltage_Max, the peak current is in phase b
      [i |-> I3(3, -4, 1), v |-> I3(36, -48, 12), l |-> << mH, mH, mH >>],
      \* the peak-current phase is above Voltage_Max
      [i |-> I3(4, -2, -2), v |-> I3(48, -24, -24), l |-> << mH, mH, mH >>],
      \* phase b is above Inductance_Max, the peak current is in phase a
      [i |-> I3(2, -1, -1), v |-> I3(12, -6, -6),
       l |-> << mH, Q(2, 100), mH >>],
      \* the peak-current phase is above Inductance_Max
      [i |-> I3(2, -1, -1), v |-> I3(12, -6, -6),
       l |-> << Q(2, 100), mH, mH >>],
      \* no current at all
      [i |-> I3(0, 0, 0), v |-> I3(0, 0, 0), l |-> << mH, mH, mH >>],
      \* a peak current of exactly EPSILON
      [i |-> << EPSILON, N(0), N(0) >>, v |-> I3(0, 0, 0),
       l |-> << mH, mH, mH >>] }

PowerPatterns == { I3(0, 0, 0), I3(1, 1, 0), I3(40, 30, 20), I3(60, 50, 10) }

ForceValues == { 2, 5 }

StepSet ==
    { [outputs |->
         [force_lorentz    |-> << N(f) >>,
          phase_power      |-> p,
          phase_voltage    |-> ph.v,
          phase_current    |-> ph.i,
          phase_inductance |-> ph.l]] :
      f \in ForceValues, p \in PowerPatterns, ph \in PhasePatterns }

RECURSIVE SeqsUpTo(_, _)
SeqsUpTo(S, n) ==
    IF n = 0 THEN { <<>> }
    ELSE LET shorter == SeqsUpTo(S, n - 1)
         IN  shorter \cup { Append(q, x) : q \in shorter, x \in S }

RaisePoints == { "Tubular", "setup", "phase_alignment", "rotational_analysis" }

EvalOutcomes ==
    { [raised |-> r, results |-> <<>>] : r \in RaisePoints }
    \cup { [raised |-> "none", results |-> q] : q \in SeqsUpTo(StepSet, MaxSteps) }

\* individuals as the generation loop hands them over (clamped)
EvalIndividuals ==
    { << Q(2, 10), Q(2, 10), Q(12, 10), Q(2, 10), N(0) >>,
      << N(10), N(10), N(10), N(10), N(13) >> }

NoResult == [exc |-> "pending", value |-> <<>>]

InitEval ==
    /\ ev_pc = "ready"
    /\ ev_individual \in EvalIndividuals
    /\ ev_outcome \in EvalOutcomes
    /\ ev_result = NoResult

Evaluate ==
    /\ ev_pc = "ready"
    /\ ev_result' = evaluate_motor(ev_individual, ev_outcome)
    /\ ev_pc' = "done"
    /\ UNCHANGED <<ev_individual, ev_outcome>>
    /\ UNCHANGED notEval

-----------------------------------------------------------------------------
(* Properties of evaluate_motor (checked under SpecEval) *)

\* the sweep evaluate_motor sees
Sweep == simulate(ev_individual[1], ev_individual[2], ev_individual[3],
                  ev_individual[4], ev_individual[5], ev_outcome).value

StepPower(step) == NSum(step.outputs.phase_power)

SweepAvgForce ==
    NDivInt(NSum([k \in 1..Len(Sweep) |-> Sweep[k].outputs.force_lorentz[1]]),
            Len(Sweep))

SweepAvgPower ==
    NDivInt(NSum([k \in 1..Len(Sweep) |-> StepPower(Sweep[k])]), Len(Sweep))

Failed == ev_result = Returned(FAILED_FITNESS)

\* C2 (as claimed): whenever some step has any phase voltage above
\* Voltage_Max or any phase inductance above Inductance_Max, the fitness is
\* the failure sentinel.
C2_AnyPhaseOverCeilingFails ==
    ( /\ ev_pc = "done"
      /\ \E k \in 1..Len(Sweep) :
           \/ \E j \in 1..Len(Sweep[k].outputs.phase_voltage) :
                NGt(Sweep[k].outputs.phase_voltage[j], N(Voltage_Max))
           \/ \E j \in 1..Len(Sweep[k].outputs.phase_inductance) :
                NGt(Sweep[k].outputs.phase_inductance[j], Inductance_Max) )
    => Failed

\* C3 (as claimed): whenever a single step's summed phase power is above
\* Power_Max, the fitness is the failure sentinel.
C3_AnyStepPowerFails ==
    ( /\ ev_pc = "done"
      /\ \E k \in 1..Len(Sweep) : NGt(StepPower(Sweep[k]), N(Power_Max)) )
    => Failed

\* C3 (amended): whenever the average over the steps of the summed phase
\* power is above Power_Max, the fitness is the failure sentinel.
C3_AveragePowerFails ==
    ( /\ ev_pc = "done"
      /\ Sweep # <<>>
      /\ NGt(SweepAvgPower, N(Power_Max)) )
    => Failed

\* C3 witness: a sweep with one step at or below Power_Max and an average
\* above it has been evaluated.
C3_Witness ==
    /\ ev_pc = "done"
    /\ Sweep # <<>>
    /\ NGt(SweepAvgPower, N(Power_Max))
    /\ \E k \in 1..Len(Sweep) : NLe(StepPower(Sweep[k]), N(Power_Max))
    /\ Failed

\* C8: a sweep with zero steps gives the failure sentinel and raises nothing.
C8_EmptySweepFails ==
    (ev_pc = "done" /\ Len(Sweep) = 0) => Failed

\* C8 witness: the simulator returned an empty sweep without raising, and
\* the evaluation is over.
C8_Witness ==
    /\ ev_pc = "done"
    /\ ev_outcome.raised = "none"
    /\ ev_outcome.results = <<>>
    /\ Failed

-----------------------------------------------------------------------------
(* evaluate_motor applied to sweeps in which a step lacks a channel        *)

\* the channels of requested_outputs
Channels ==
    { "force_lorentz", "phase_power", "phase_voltage", "phase_current",
      "phase_inductance" }

CriticalChannels == { "phase_voltage", "phase_inductance" }

\* the step without the channels in `missing`: entry['outputs'] has no such
\* key
Lacking(step, missing) ==
    [outputs |-> [c \in (DOMAIN step.outputs) \ missing |-> step.outputs[c]]]

\* two steps within every ceiling
CompleteSteps ==
    { [outputs |->
         [force_lorentz    |-> << N(f) >>,
          phase_power      |-> I3(1, 1, 0),
          phase_voltage    |-> I3(12, -6, -6),
          phase_current    |-> I3(2, -1, -1),
          phase_inductance |-> << mH, mH, mH >>]] : f \in ForceValues }

\* each of them complete, or lacking one channel
ChannelSteps ==
    CompleteSteps
    \cup { Lacking(step, { c }) : step \in CompleteSteps, c \in Channels }

ChannelOutcomes ==
    { [raised |-> "none", results |-> q] :
        q \in SeqsUpTo(ChannelSteps, MaxSteps) }

InitChannels ==
    /\ ev_pc = "ready"
    /\ ev_individual \in EvalIndividuals
    /\ ev_outcome \in ChannelOutcomes
    /\ ev_result = NoResult

-----------------------------------------------------------------------------
(* Properties of evaluate_motor on incomplete steps (checked under         *)
(* SpecChannels)                                                           *)

\* the channels that some step of the sweep lacks
MissingChannels ==
    UNION { Channels \ DOMAIN Sweep[k].outputs : k \in 1..Len(Sweep) }

\* the steps of the sweep that have every channel
RECURSIVE CompleteOnly(_)
CompleteOnly(results) ==
    IF results = <<>> THEN <<>>
    ELSE IF Channels \subseteq DOMAIN Head(results).outputs
         THEN << Head(results) >> \o CompleteOnly(Tail(results))
         ELSE CompleteOnly(Tail(results))

\* C21 (as claimed): when a step of the sweep lacks a channel, no exception
\* leaves evaluate_motor; a missing voltage or inductance channel gives the
\* failure sentinel, and a missing force, power or current channel gives a
\* fitness reduced from the other steps.
C21_MissingChannelHandled ==
    (ev_pc = "done" /\ MissingChannels # {}) =>
        /\ ev_result.exc = "none"
        /\ MissingChannels \cap CriticalChannels # {} => Failed
        /\ ( /\ MissingChannels \cap CriticalChannels = {}
             /\ CompleteOnly(Sweep) # <<>> )
           => ev_result =
                evaluate_motor(ev_individual,
                               [raised |-> "none",
                                results |-> CompleteOnly(Sweep)])

\* what the code does on such a sweep: the first subscript of the missing
\* key raises KeyError, which leaves evaluate_motor
C21_MissingChannelRaises ==
    (ev_pc = "done" /\ MissingChannels # {}) => ev_result = Raised("KeyError")

\* a sweep with a complete step and a step lacking the force channel has
\* been evaluated
C21_Reached ==
    /\ ev_pc = "done"
    /\ Len(Sweep) = 2
    /\ MissingChannels = { "force_lorentz" }
    /\ CompleteOnly(Sweep) # <<>>

-----------------------------------------------------------------------------
(* evaluate_motor applied to sweeps with small, zero and tied currents     *)

\* (current, voltage, inductance) per phase, all within the ceilings
CurrentPatterns ==
    { \* phase a carries the peak current: 6 ohm, 1 mH
      [i |-> I3(2, -1, -1), v |-> I3(12, -6, -6), l |-> << mH, mH, mH >>],
      \* phase b carries the peak current, a negative one: 6 ohm, 2 mH
      [i |-> I3(1, -4, 3), v |-> I3(12, -24, 12),
       l |-> << mH, Q(2, 1000), mH >>],
      \* phases a and b tie in magnitude: max() takes the first
      [i |-> I3(2, -2, 0), v |-> I3(8, -6, 0),
       l |-> << Q(3, 1000), Q(2, 1000), mH >>],
      \* no current and no voltage at all
      [i |-> I3(0, 0, 0), v |-> I3(0, 0, 0), l |-> << mH, mH, mH >>],
      \* a peak current of exactly EPSILON
      [i |-> << EPSILON, N(0), N(0) >>, v |-> I3(0, 0, 0),
       l |-> << mH, mH, mH >>],
      \* current but no voltage: 0 ohm
      [i |-> I3(2, -1, -1), v |-> I3(0, 0, 0), l |-> << mH, mH, mH >>] }

CurrentSteps ==
    { [outputs |->
         [force_lorentz    |-> << N(f) >>,
          phase_power      |-> I3(1, 1, 0),
          phase_voltage    |-> ph.v,
          phase_current    |-> ph.i,
          phase_inductance |-> ph.l]] :
      f \in ForceValues, ph \in CurrentPatterns }

CurrentOutcomes ==
    { [raised |-> "none", results |-> q] :
        q \in SeqsUpTo(CurrentSteps, MaxSteps) }

InitCurrents ==
    /\ ev_pc = "ready"
    /\ ev_individual \in EvalIndividuals
    /\ ev_outcome \in CurrentOutcomes
    /\ ev_result = NoResult

-----------------------------------------------------------------------------
(* Properties of the resistance, inductance and time constant (checked     *)
(* under SpecCurrents)                                                     *)

\* the phase of step k with the largest current magnitude, the first of them
PeakPhase(k) ==
    LET i_phase == Sweep[k].outputs.phase_current IN
    CHOOSE j \in 1..Len(i_phase) :
        /\ \A m \in 1..Len(i_phase) : NLe(NAbs(i_phase[m]), NAbs(i_phase[j]))
        /\ \A m \in 1..(j - 1) : NLt(NAbs(i_phase[m]), NAbs(i_phase[j]))

PeakCurrent(k) == Sweep[k].outputs.phase_current[PeakPhase(k)]

\* the steps whose peak current magnitude exceeds EPSILON
UsableSteps ==
    { k \in 1..Len(Sweep) : NGt(NAbs(PeakCurrent(k)), EPSILON) }

\* the sum of vals[k] over the k in S
RECURSIVE SumOver(_, _)
SumOver(vals, S) ==
    IF S = {} THEN N(0)
    ELSE LET k == CHOOSE x \in S : TRUE
         IN  NAdd(vals[k], SumOver(vals, S \ { k }))

\* |voltage / current| at the peak phase of each usable step
StepResistance ==
    [k \in UsableSteps |->
        NAbs(NDiv(Sweep[k].outputs.phase_voltage[PeakPhase(k)],
                  PeakCurrent(k)))]

StepInductance ==
    [k \in UsableSteps |-> Sweep[k].outputs.phase_inductance[PeakPhase(k)]]

MeanResistance ==
    IF UsableSteps = {} THEN EPSILON
    ELSE NDivInt(SumOver(StepResistance, UsableSteps),
                 Cardinality(UsableSteps))

MeanInductance ==
    IF UsableSteps = {} THEN N(0)
    ELSE NDivInt(SumOver(StepInductance, UsableSteps),
                 Cardinality(UsableSteps))

\* C22: resistance and inductance are the means, over the steps whose peak
\* current magnitude exceeds EPSILON, of the values at the phase of largest
\* current magnitude; the time constant is their quotient when the mean
\* resistance exceeds EPSILON and 0 otherwise; every divisor used is
\* non-zero and no ZeroDivisionError is raised, also when every current is
\* zero and when every voltage is zero.
C22_TimeConstantGuarded ==
    (ev_pc = "done" /\ Sweep # <<>>) =>
        /\ ev_result.exc = "none"
        /\ \A k \in UsableSteps : ~NIsZero(PeakCurrent(k))
        /\ NGt(MeanResistance, EPSILON) => ~NIsZero(MeanResistance)
        /\ ~Failed =>
             /\ ev_result.value[4] = MeanInductance
             /\ ev_result.value[5] = MeanResistance
             /\ ev_result.value[6] =
                  IF NGt(MeanResistance, EPSILON)
                  THEN NDiv(MeanInductance, MeanResistance)
                  ELSE N(0)

\* C22 witness: a sweep of a step without current and a step whose peak
\* current is in the second phase has been evaluated to a time constant of
\* 2 mH / 6 ohm.
C22_Witness ==
    /\ ev_pc = "done"
    /\ Len(Sweep) = 2
    /\ UsableSteps = { 2 }
    /\ PeakPhase(2) = 2
    /\ \A j \in 1..3 : NIsZero(Sweep[1].outputs.phase_current[j])
    /\ ev_result.exc = "none"
    /\ ev_result.value[6] = Q(1, 3000)

\* a sweep in which every step has current but no voltage has been
\* evaluated to resistance 0 and time constant 0
C22_ZeroVoltageReached ==
    /\ ev_pc = "done"
    /\ Len(Sweep) = 2
    /\ UsableSteps = { 1, 2 }
    /\ \A k \in 1..2 : \A j \in 1..3 :
          NIsZero(Sweep[k].outputs.phase_voltage[j])
    /\ ev_result.exc = "none"
    /\ ev_result.value[5] = N(0)
    /\ ev_result.value[6] = N(0)

-----------------------------------------------------------------------------
(* The generation loops: bluefin_motor.py and, under old optimization/,   *)
(* bluefin_optimization.py and simple_deap_optimization.py                 *)

Scripts == { "bluefin_motor", "bluefin_optimization",
             "simple_deap_optimization" }

\* population size and number of generations (50 and 25 in bluefin_motor.py)
individuals == 2

generations == 2

\* the parameter file's text, saved at the head of bluefin_motor.py's log
motor_yaml_text == "single.yaml"

\* bluefin_optimization.py: the bounds the first population is drawn from
THICKNESS_BOUNDS == << Q(2, 10), N(10) >>

LENGTH_BOUNDS == << Q(2, 10), N(20) >>

SPACING_BOUNDS == << Q(12, 10), N(5) >>

Catalog(s) ==
    IF s = "simple_deap_optimization"
    THEN candidate_wire_diameters_simple_deap
    ELSE candidate_wire_diameters

\* the two corners of the box the first population is drawn from
LowCorner(s) ==
    CASE s = "bluefin_motor" ->
           << Radial_Thickness_Bounds[1], Axial_Length_Bounds[1],
              Axial_Spacing_Bounds[1], Radial_Thickness_Bounds[1], N(0) >>
      [] s = "bluefin_optimization" ->
           << THICKNESS_BOUNDS[1], LENGTH_BOUNDS[1], SPACING_BOUNDS[1], N(0) >>
      [] s = "simple_deap_optimization" ->
           << LOWER_BOUND, LOWER_BOUND, N(0) >>

HighCorner(s) ==
    CASE s = "bluefin_motor" ->
           << Radial_Thickness_Bounds[2], Axial_Length_Bounds[2],
              Axial_Spacing_Bounds[2], Radial_Thickness_Bounds[2],
              N(Len(Catalog(s)) - 1) >>
      [] s = "bluefin_optimization" ->
           << THICKNESS_BOUNDS[2], LENGTH_BOUNDS[2], SPACING_BOUNDS[2],
              N(Len(Catalog(s)) - 1) >>
      [] s = "simple_deap_optimization" ->
           << N(UPPER_BOUND), N(UPPER_BOUND), N(Len(Catalog(s)) - 1) >>

\* toolbox.population(n): every gene uniform within its bound, the wire index
\* an integer of its range
InitialIndividuals(s) == { LowCorner(s), HighCorner(s) }

\* What cxBlend(alpha=0.5) and mutPolynomialBounded can leave in an
\* individual: a blend reaches half a range beyond either parent, the wire
\* gene becomes a float, and bluefin_motor.py's mutation bound lists pair the
\* spacing gene with the thickness bound (low 0.2).
VariedIndividuals(s) ==
    CASE s = "bluefin_motor" ->
           { << Q(1, 10), Q(-47, 10), Q(2, 10), Q(1, 10), Q(-3, 2) >>,
             << Q(149, 10), Q(101, 10), Q(144, 10), N(12), Q(27, 2) >> }
      [] s = "bluefin_optimization" ->
           { << Q(-47, 10), Q(-97, 10), Q(12, 10), Q(-3, 2) >>,
             << N(10), Q(299, 10), N(5), Q(27, 2) >> }
      [] s = "simple_deap_optimization" ->
           { << Q(-97, 10), Q(1, 10), Q(-3, 2) >>,
             << Q(299, 10), Q(201, 10), Q(17, 2) >> }

\* algorithms.varAnd: each offspring is a clone of its parent, possibly mated
\* with its neighbour and possibly mutated
varAnd(s, pop) ==
    { o \in [1..Len(pop) -> InitialIndividuals(s) \cup VariedIndividuals(s)] :
        \A i \in 1..Len(pop) : o[i] = pop[i] \/ o[i] \in VariedIndividuals(s) }

\* min(high, max(low, x))
ClampTo(bounds, x) == NMin(bounds[2], NMax(bounds[1], x))

\* min(len(candidate_wire_diameters) - 1, max(0, int(round(x))))
ClampWire(catalog, x) == N(IMin(Len(catalog) - 1, IMax(0, PyRound(x))))

\* a variant that clamps the spacing gene against the thickness bound
Clamp_SpacingByThickness(ind) ==
    << ClampTo(Radial_Thickness_Bounds, ind[1]),
       ClampTo(Axial_Length_Bounds, ind[2]),
       ClampTo(Radial_Thickness_Bounds, ind[3]),
       ClampTo(Radial_Thickness_Bounds, ind[4]),
       ClampWire(candidate_wire_diameters, ind[5]) >>

\* bluefin_motor.py: the body of `for ind in offspring` under "Clamp values"
Clamp(ind) ==
    << ClampTo(Radial_Thickness_Bounds, ind[1]),
       ClampTo(Axial_Length_Bounds, ind[2]),
       ClampTo(Axial_Spacing_Bounds, ind[3]),
       ClampTo(Radial_Thickness_Bounds, ind[4]),
       ClampWire(candidate_wire_diameters, ind[5]) >>

\* bluefin_optimization.py: the same loop, every gene against
\* LOWER_BOUND and UPPER_BOUND
Clamp_bluefin_optimization(ind) ==
    << ClampTo(<< LOWER_BOUND, N(UPPER_BOUND) >>, ind[1]),
       ClampTo(<< LOWER_BOUND, N(UPPER_BOUND) >>, ind[2]),
       ClampTo(<< LOWER_BOUND, N(UPPER_BOUND) >>, ind[3]),
       ClampWire(candidate_wire_diameters, ind[4]) >>

\* simple_deap_optimization.py: the same loop
Clamp_simple_deap(ind) ==
    << ClampTo(<< LOWER_BOUND, N(UPPER_BOUND) >>, ind[1]),
       ClampTo(<< LOWER_BOUND, N(UPPER_BOUND) >>, ind[2]),
       ClampWire(candidate_wire_diameters_simple_deap, ind[3]) >>

ClampOf(s, ind) ==
    CASE s = "bluefin_motor" -> Clamp(ind)
      [] s = "bluefin_optimization" -> Clamp_bluefin_optimization(ind)
      [] s = "simple_deap_optimization" -> Clamp_simple_deap(ind)

\* int(x) for the clamped wire gene
PyInt(x) == ISign(x.a) * (IAbs(x.a) \div x.d)

\* catalog[int(x)] is defined (a negative int(x) down to -len still indexes
\* the list, from its end)
ValidWireIndex(catalog, x) ==
    /\ PyInt(x) >= -Len(catalog)
    /\ PyInt(x) <= Len(catalog) - 1

WireAt(catalog, i) == catalog[IF i < 0 THEN i + Len(catalog) + 1 ELSE i + 1]

\* ind_log = {..., "status": "started"}
StartedLog(s, ind) ==
    LET wire == WireAt(Catalog(s), PyInt(ind[Len(ind)])) IN
    CASE s = "bluefin_motor" ->
           ("Slot thickness" :> ind[1]) @@ ("Slot axial length" :> ind[2])
           @@ ("Slot axial spacing" :> ind[3])
           @@ ("Back Iron thickness" :> ind[4])
           @@ ("Wire diameter" :> wire) @@ ("status" :> "started")
      [] s = "bluefin_optimization" ->
           ("Slot thickness" :> ind[1]) @@ ("Slot axial length" :> ind[2])
           @@ ("Slot axial spacing" :> ind[3])
           @@ ("Wire diameter" :> wire) @@ ("status" :> "started")
      [] s = "simple_deap_optimization" ->
           ("Slot thickness" :> ind[1]) @@ ("Slot axial length" :> ind[2])
           @@ ("Wire diameter" :> wire) @@ ("status" :> "started")

\* the "fitness" entry of ind_log.update({...})
FitnessLog(s, fit) ==
    CASE s = "bluefin_motor" ->
           ("Average Force (N)" :> fit[1]) @@ ("Force Per Watt (N/W)" :> fit[2])
           @@ ("Peak-to-Peak Ripple (N)" :> fit[3])
           @@ ("Inductance (H)" :> fit[4]) @@ ("Resistance (Ohms)" :> fit[5])
           @@ ("Time Constant (S)" :> fit[6])
      [] s = "bluefin_optimization" ->
           ("Average Force" :> fit[1]) @@ ("Force Per Watt" :> fit[2])
           @@ ("Average Inductance" :> fit[3])
           @@ ("Peak-to-Peak Force" :> fit[4])
      [] s = "simple_deap_optimization" ->
           ("average power" :> fit[1]) @@ ("average force" :> fit[2])
           @@ ("average inductance" :> fit[3])

\* ind_log.update({"fitness": {...}, "status": "completed"})
CompletedLog(s, ind_log, fit) ==
    ("fitness" :> FitnessLog(s, fit)) @@ ("status" :> "completed") @@ ind_log

\* bluefin.output.writer.write_output_json(data, path): the file holds data
write_output_json(data) == [exists |-> TRUE, data |-> data]

\* the old scripts write after each status change of an individual,
\* bluefin_motor.py once per generation
WritesPerIndividual(s) == s # "bluefin_motor"

\* a variant in which no script writes at the end of a generation
WritesPerGeneration_Never(s) == FALSE

WritesPerGeneration(s) == s = "bluefin_motor"

\* a variant that writes the current generation alone
Snapshot_CurrentOnly(out, gd) == << gd >>

\* result_output + [generation_data]
Snapshot(out, gd) == out \o << gd >>

\* a variant that keeps the latest generation alone
AppendGeneration_Replace(s, out, gd) ==
    IF s = "bluefin_motor"
    THEN [out EXCEPT ![1].generations = << gd >>]
    ELSE << gd >>

\* result_output[0]["generations"].append(generation_data) in
\* bluefin_motor.py, result_output.append(generation_data) in the old scripts
AppendGeneration(s, out, gd) ==
    IF s = "bluefin_motor"
    THEN [out EXCEPT ![1].generations = Append(@, gd)]
    ELSE Append(out, gd)

\* tools.selTournament(offspring, k, tournsize=3): k winners, each the best
\* of three aspirants drawn with replacement (three draws of one individual
\* make it the winner)
selTournament(offs, k) == [1..k -> { offs[i] : i \in 1..Len(offs) }]

\* toolbox.evaluate(ind)
evaluate(s, ind, outcome) ==
    CASE s = "bluefin_motor" -> evaluate_motor(ind, outcome)
      [] s = "bluefin_optimization" ->
           evaluate_motor_bluefin_optimization(ind, outcome)
      [] s = "simple_deap_optimization" ->
           evaluate_motor_simple_deap(ind, outcome)

\* the sweeps the loop's candidates meet
GoodStep ==
    [outputs |->
       [force_lorentz    |-> << N(5) >>,
        phase_power      |-> I3(1, 1, 0),
        phase_voltage    |-> I3(12, -6, -6),
        phase_current    |-> I3(2, -1, -1),
        phase_inductance |-> << mH, mH, mH >>]]

\* the old scripts request no phase_current
GoodStep_old ==
    [outputs |->
       [force_lorentz    |-> << N(5) >>,
        phase_power      |-> I3(1, 1, 0),
        phase_voltage    |-> I3(12, -6, -6),
        phase_inductance |-> << mH, mH, mH >>]]

LoopOutcomes ==
    { [raised |-> r, results |-> <<>>] :
        r \in { "setup", "phase_alignment", "rotational_analysis" } }
    \cup { [raised |-> "none", results |-> << GoodStep >>] }

\* one failing and one successful outcome per script
LogOutcomes(s) ==
    { [raised |-> "setup", results |-> <<>>],
      [raised |-> "none",
       results |-> IF s = "bluefin_motor" THEN << GoodStep >>
                   ELSE << GoodStep_old >>] }

NoOutcome == [raised |-> "pending", results |-> <<>>]

\* The solver is deterministic: what it does depends on the geometry alone.
\* A geometry outside the box the first population is drawn from cannot be
\* drawn and setup() raises.
Simulate(ind) ==
    IF ind \in DOMAIN simulator THEN simulator[ind]
    ELSE [raised |-> "setup", results |-> <<>>]

\* the state at `for generation in range(generations)`
LoopStart ==
    /\ pc = "varAnd"
    /\ generation = 0
    /\ population \in [1..individuals -> InitialIndividuals(script)]
    /\ offspring = <<>>
    /\ cursor = 0
    /\ generation_data = [generation |-> 0, individuals |-> <<>>]
    /\ IF script = "bluefin_motor"
       THEN \* result_output = [{"motor_yaml": ..., "generations": []}],
            \* written at once
            /\ result_output =
                 << [motor_yaml |-> motor_yaml_text, generations |-> <<>>] >>
            /\ stored = write_output_json(result_output)
       ELSE \* result_output = []
            /\ result_output = <<>>
            /\ stored = [exists |-> FALSE, data |-> <<>>]

InitLoop ==
    /\ script = "bluefin_motor"
    /\ simulator \in [InitialIndividuals(script) -> LoopOutcomes]
    /\ LoopStart

InitLoops ==
    /\ script \in Scripts
    /\ simulator \in [InitialIndividuals(script) -> LogOutcomes(script)]
    /\ LoopStart

\* offspring = algorithms.varAnd(population, toolbox, cxpb, mutpb)
VarAnd ==
    /\ pc = "varAnd"
    /\ offspring' \in varAnd(script, population)
    /\ pc' = "clamp"
    /\ UNCHANGED <<script, generation, population, cursor, generation_data,
                   result_output, stored, simulator>>
    /\ UNCHANGED notLoop

\* the clamp loop, and the new generation record
ClampOffspring ==
    /\ pc = "clamp"
    /\ offspring' = [i \in 1..Len(offspring) |-> ClampOf(script, offspring[i])]
    /\ generation_data' = [generation |-> generation, individuals |-> <<>>]
    /\ cursor' = 1
    /\ pc' = "log_start"
    /\ UNCHANGED <<script, generation, population, result_output, stored,
                   simulator>>
    /\ UNCHANGED notLoop

\* ind_log = {..., "status": "started"}; generation_data[...].append(ind_log)
\* and, in the old scripts, write_output_json(result_output + [generation_data])
LogStarted ==
    /\ pc = "log_start"
    /\ LET ind == offspring[cursor] IN
       IF ValidWireIndex(Catalog(script), ind[Len(ind)])
       THEN /\ generation_data' =
                 [generation_data EXCEPT
                    !.individuals = Append(@, StartedLog(script, ind))]
            /\ stored' =
                 IF WritesPerIndividual(script)
                 THEN write_output_json(
                          Snapshot(result_output, generation_data'))
                 ELSE stored
            /\ pc' = "evaluate"
       ELSE \* candidate_wire_diameters[int(ind[-1])] raises IndexError
            /\ pc' = "aborted"
            /\ UNCHANGED <<generation_data, stored>>
    /\ UNCHANGED <<script, generation, population, offspring, cursor,
                   result_output, simulator>>
    /\ UNCHANGED notLoop

\* fit = toolbox.evaluate(ind); ind_log.update(...) and, in the old scripts,
\* write_output_json(result_output + [generation_data])
EvaluateIndividual ==
    /\ pc = "evaluate"
    /\ LET r == evaluate(script, offspring[cursor],
                         Simulate(offspring[cursor]))
       IN
       IF r.exc # "none"
       THEN /\ pc' = "aborted"
            /\ UNCHANGED <<generation_data, cursor, stored>>
       ELSE /\ generation_data' =
                 [generation_data EXCEPT
                    !.individuals[cursor] = CompletedLog(script, @, r.value)]
            /\ stored' =
                 IF WritesPerIndividual(script)
                 THEN write_output_json(
                          Snapshot(result_output, generation_data'))
                 ELSE stored
            /\ cursor' = cursor + 1
            /\ pc' = IF cursor < Len(offspring) THEN "log_start"
                     ELSE "end_generation"
    /\ UNCHANGED <<script, generation, population, offspring, result_output,
                   simulator>>
    /\ UNCHANGED notLoop

\* append the generation (bluefin_motor.py: and write the log), select the
\* next population
EndGeneration ==
    /\ pc = "end_generation"
    /\ result_output' = AppendGeneration(script, result_output, generation_data)
    /\ stored' = IF WritesPerGeneration(script)
                 THEN write_output_json(result_output')
                 ELSE stored
    /\ population' \in selTournament(offspring, Len(population))
    /\ generation' = generation + 1
    /\ pc' = IF generation + 1 < generations THEN "varAnd" ELSE "done"
    /\ UNCHANGED <<script, offspring, cursor, generation_data, simulator>>
    /\ UNCHANGED notLoop

\* bluefin_optimization.py: offspring as varAnd can leave them.  cxBlend
\* reaches half the parents' distance beyond either parent, and
\* mutPolynomialBounded is registered with low = LOWER_BOUND and
\* up = UPPER_BOUND for the three continuous genes alike.
WideOffspring ==
    { << Q(-47, 10), Q(-97, 10), Q(-7, 10), Q(-3, 2) >>,
      << Q(149, 10), Q(299, 10), Q(69, 10), Q(27, 2) >>,
      << N(5), N(10), N(3), Q(13, 2) >> }

\* the state of bluefin_optimization.py after the first varAnd, at
\* "Clamp values"
InitClampStage ==
    /\ script = "bluefin_optimization"
    /\ simulator \in [InitialIndividuals(script) ->
                        { [raised |-> "none", results |-> << GoodStep_old >>] }]
    /\ pc = "clamp"
    /\ generation = 0
    /\ population \in [1..individuals -> InitialIndividuals(script)]
    /\ offspring \in [1..individuals -> WideOffspring]
    /\ cursor = 0
    /\ generation_data = [generation |-> 0, individuals |-> <<>>]
    /\ result_output = <<>>
    /\ stored = [exists |-> FALSE, data |-> <<>>]

NextLoop ==
    \/ VarAnd
    \/ ClampOffspring
    \/ LogStarted
    \/ EvaluateIndividual
    \/ EndGeneration

-----------------------------------------------------------------------------
(* Properties of the generation loops *)

\* the loop is between the clamp and the end of a generation
InGeneration == pc \in { "log_start", "evaluate", "end_generation" }

\* the generation records of a log file (of the log in memory)
GenerationsOf(file) ==
    IF ~file.exists THEN <<>>
    ELSE IF script = "bluefin_motor" THEN file.data[1].generations
    ELSE file.data

\* C1: every offspring that reaches evaluate_motor in bluefin_motor.py has
\* thickness in [0.2, 10], length in [0.2, 10], spacing in [1.2, 10],
\* back-iron thickness in [0.2, 10] and an integer wire index in [0, 13].
C1_EvaluatedOffspringInBounds ==
    (script = "bluefin_motor" /\ pc = "evaluate") =>
        LET ind == offspring[cursor] IN
        /\ NLe(Q(2, 10), ind[1]) /\ NLe(ind[1], N(10))
        /\ NLe(Q(2, 10), ind[2]) /\ NLe(ind[2], N(10))
        /\ NLe(Q(12, 10), ind[3]) /\ NLe(ind[3], N(10))
        /\ NLe(Q(2, 10), ind[4]) /\ NLe(ind[4], N(10))
        /\ ind[5].d = 1 /\ ind[5].b = 0
        /\ ind[5].a \in 0..13

\* C1 witness: an offspring that differs from its parent (crossover or
\* mutation took it out of the box and off the integers) is at
\* evaluate_motor.
C1_Witness ==
    /\ script = "bluefin_motor"
    /\ pc = "evaluate"
    /\ offspring[cursor] # population[cursor]

(* Properties of the clamp of bluefin_optimization.py (checked under       *)
(* SpecClampStage)                                                         *)

\* x lies in the closed interval bounds = (low, high)
Within(bounds, x) == NLe(bounds[1], x) /\ NLe(x, bounds[2])

\* C23 (as claimed): every offspring that reaches evaluate_motor in
\* bluefin_optimization.py has thickness in THICKNESS_BOUNDS, length in
\* LENGTH_BOUNDS, spacing in SPACING_BOUNDS and an integer wire index in
\* [0, len(candidate_wire_diameters) - 1].
C23_EvaluatedOffspringFeasible ==
    pc = "evaluate" =>
        LET ind == offspring[cursor] IN
        /\ Within(THICKNESS_BOUNDS, ind[1])
        /\ Within(LENGTH_BOUNDS, ind[2])
        /\ Within(SPACING_BOUNDS, ind[3])
        /\ ind[4].d = 1 /\ ind[4].b = 0
        /\ ind[4].a \in 0..(Len(candidate_wire_diameters) - 1)

\* what the clamp of bluefin_optimization.py gives: every continuous gene in
\* [LOWER_BOUND, UPPER_BOUND], the same interval for the three of them
C23_EvaluatedOffspringInClampInterval ==
    pc = "evaluate" =>
        LET ind == offspring[cursor] IN
        /\ \A g \in 1..3 : Within(<< LOWER_BOUND, N(UPPER_BOUND) >>, ind[g])
        /\ ind[4].d = 1 /\ ind[4].b = 0
        /\ ind[4].a \in 0..(Len(candidate_wire_diameters) - 1)

\* an offspring with thickness above THICKNESS_BOUNDS and spacing above
\* SPACING_BOUNDS is at evaluate_motor
C23_Reached ==
    /\ pc = "evaluate"
    /\ NGt(offspring[cursor][1], THICKNESS_BOUNDS[2])
    /\ NGt(offspring[cursor][3], SPACING_BOUNDS[2])

\* the records of the generation in flight that the stored log does not hold
UnstoredRecords ==
    IF ~InGeneration THEN {}
    ELSE { i \in 1..Len(generation_data.individuals) :
             \/ Len(GenerationsOf(stored)) < generation + 1
             \/ Len(GenerationsOf(stored)[generation + 1].individuals) < i
             \/ GenerationsOf(stored)[generation + 1].individuals[i]
                  # generation_data.individuals[i] }

Parameters(rec) ==
    [k \in DOMAIN rec \ { "status", "fitness" } |-> rec[k]]

\* the shape of a stored log
WellFormed(gens) ==
    \A g \in 1..Len(gens) :
        /\ gens[g].generation = g - 1
        /\ \A i \in 1..Len(gens[g].individuals) :
             LET rec == gens[g].individuals[i] IN
             \/ rec.status = "completed" /\ "fitness" \in DOMAIN rec
             \/ /\ rec.status = "started"
                /\ g = Len(gens)
                /\ i = Len(gens[g].individuals)

\* log S is a prefix of log T
IsPrefix(S, T) ==
    /\ Len(S) <= Len(T)
    /\ \A g \in 1..Len(S) :
         /\ S[g].generation = T[g].generation
         /\ Len(S[g].individuals) <= Len(T[g].individuals)
         /\ g < Len(S) => Len(S[g].individuals) = Len(T[g].individuals)
         /\ \A i \in 1..Len(S[g].individuals) :
              IF S[g].individuals[i].status = "completed"
              THEN T[g].individuals[i] = S[g].individuals[i]
              ELSE Parameters(T[g].individuals[i])
                     = Parameters(S[g].individuals[i])

\* the records of the generation in flight are those of the offspring, in
\* offspring order
InOffspringOrder ==
    InGeneration =>
        \A i \in 1..Len(generation_data.individuals) :
            Parameters(generation_data.individuals[i])
              = Parameters(StartedLog(script, offspring[i]))

\* C5: in the three generation loops the records follow the offspring order,
\* every stored log is well formed (generation indices from 0, every record
\* completed except perhaps the last of the last generation) and every write
\* extends the stored log: completed records are never changed or removed.
C5_StoredLogIsPrefix ==
    /\ [](InOffspringOrder /\ WellFormed(GenerationsOf(stored)))
    /\ [][IsPrefix(GenerationsOf(stored), GenerationsOf(stored'))]_vars

\* C5 witness: the stored log holds a finished generation and, in the next,
\* a completed record followed by a started one.
C5_Witness ==
    /\ Len(GenerationsOf(stored)) = 2
    /\ Len(GenerationsOf(stored)[2].individuals) = 2
    /\ GenerationsOf(stored)[2].individuals[1].status = "completed"
    /\ GenerationsOf(stored)[2].individuals[2].status = "started"

\* the sentinel as bluefin_motor.py logs it
FailedLog == FitnessLog("bluefin_motor", FAILED_FITNESS)

\* the candidate a record of the log is about
CandidateOf(rec) ==
    CHOOSE ind \in InitialIndividuals(script) :
        Parameters(StartedLog(script, ind)) = Parameters(rec)

Raises(ind) == Simulate(ind).raised # "none"

\* C6: in bluefin_motor.py a candidate whose setup, phase alignment or sweep
\* raises gets an empty sweep and the sentinel fitness, the loop never
\* aborts, and it ends with every offspring of every generation completed.
C6_FailuresDoNotAbort ==
    script = "bluefin_motor" =>
        /\ pc # "aborted"
        /\ \A ind \in DOMAIN simulator :
             Raises(ind) =>
                simulate(ind[1], ind[2], ind[3], ind[4], ind[5],
                         simulator[ind]) = Returned(<<>>)
        /\ InGeneration =>
             \A i \in 1..Len(generation_data.individuals) :
                LET rec == generation_data.individuals[i] IN
                (rec.status = "completed" /\ Raises(offspring[i])) =>
                    rec.fitness = FailedLog
        /\ pc = "done" =>
             /\ Len(result_output[1].generations) = generations
             /\ \A g \in 1..generations :
                  /\ Len(result_output[1].generations[g].individuals)
                       = individuals
                  /\ \A i \in 1..individuals :
                       result_output[1].generations[g].individuals[i].status
                         = "completed"

\* C6 witness: the run is over, the first candidate of the first generation
\* raised, and a candidate after it was evaluated to a fitness of its own.
C6_Witness ==
    /\ script = "bluefin_motor"
    /\ pc = "done"
    /\ LET first == result_output[1].generations[1].individuals IN
       /\ Raises(CandidateOf(first[1]))
       /\ first[1].fitness = FailedLog
       /\ first[2].status = "completed"
       /\ first[2].fitness # FailedLog

\* C18 (as claimed): in bluefin_motor.py the record of a candidate whose
\* simulation raised carries, once evaluated, a failure status, not the
\* status 'completed' of a successfully evaluated candidate.
C18_FailureHasItsOwnStatus ==
    (script = "bluefin_motor" /\ InGeneration) =>
        \A i \in 1..Len(generation_data.individuals) :
            LET rec == generation_data.individuals[i] IN
            (Raises(offspring[i]) /\ rec.status # "started") =>
                /\ rec.status \in { "crashed", "completed-with-failure" }
                /\ rec.status # "completed"

\* the log in memory with the generation in flight
MemoryLog ==
    LET finished == IF script = "bluefin_motor"
                    THEN result_output[1].generations
                    ELSE result_output
    IN  IF (InGeneration \/ pc = "aborted") /\ Len(finished) = generation
        THEN finished \o << generation_data >>
        ELSE finished

\* the status of individual i of generation g in a log
StatusAt(log, g, i) ==
    IF g <= Len(log) /\ i <= Len(log[g].individuals)
    THEN log[g].individuals[i].status
    ELSE "absent"

\* G generation records indexed 0..G-1, each of P completed individuals
FullLog(log) ==
    /\ Len(log) = generations
    /\ \A g \in 1..generations :
         /\ log[g].generation = g - 1
         /\ Len(log[g].individuals) = individuals
         /\ \A i \in 1..individuals : StatusAt(log, g, i) = "completed"

\* C19: when a generation loop ends without an exception, the log in memory
\* and the stored log hold exactly `generations` generation records, indexed
\* from 0 in order, each of exactly `individuals` individuals, all
\* 'completed'; on the way every record entered the log as 'started' and
\* changed once, to 'completed'.
C19_EveryIndividualStartedThenCompleted ==
    /\ [](pc = "done" =>
            FullLog(MemoryLog) /\ FullLog(GenerationsOf(stored)))
    /\ [][\A g \in 1..generations : \A i \in 1..individuals :
            << StatusAt(MemoryLog, g, i), StatusAt(MemoryLog', g, i) >> \in
               { << "absent", "absent" >>, << "absent", "started" >>,
                 << "started", "started" >>, << "started", "completed" >>,
                 << "completed", "completed" >> }]_vars

\* C19 witness: a loop of bluefin_optimization.py has ended, its last
\* individual evaluated to a fitness of its own.
C19_Witness ==
    /\ script = "bluefin_optimization"
    /\ pc = "done"
    /\ Len(result_output) = generations
    /\ StatusAt(result_output, generations, individuals) = "completed"
    /\ result_output[generations].individuals[individuals].fitness
         # FitnessLog("bluefin_optimization", ZERO_FITNESS)

-----------------------------------------------------------------------------
(* force_random_search.py *)

\* number of iterations (1000 in the script)
SIMULATION_NUM == 4

\* stalls before the step size is halved (50 in the script)
STALL_MAX == 2

\* the first step size (20 in the script)
STEP_SIZE_start == 1

MIN_STEP_SIZE == Q(315, 1000)

POWER_LIMIT == 200

candidate_values ==
    << Q(125, 1000), Q(16, 100), Q(2, 10), Q(25, 100), Q(315, 1000), Q(4, 10),
       Q(5, 10), Q(63, 100), Q(8, 10) >>

\* Tubular(motor_config_path): the geometry of the parameter file
Tubular ==
    [slot_axial_length |-> N(5), slot_thickness |-> N(4),
     slot_axial_spacing |-> N(2)]

\* x * y for values without an eps part
NMul(x, y) == Norm(x.a * y.a, 0, x.d * y.d)

\* what random_value() returns three times and random.choice once in an
\* iteration
Draws ==
    { [height |-> N(-1), radius |-> Q(1, 2), spacing |-> N(0), diameter |-> 1],
      [height |-> Q(1, 2), radius |-> N(-1), spacing |-> Q(1, 2),
       diameter |-> 9] }

generate_geometry(step_size, slot_height, slot_radius, spacing, draw) ==
    [height  |-> NAbs(NAdd(slot_height, NMul(step_size, draw.height))),
     radius  |-> NAbs(NAdd(slot_radius, NMul(step_size, draw.radius))),
     spacing |-> NAbs(NAdd(spacing, NMul(step_size, draw.spacing)))]

SearchStep(force, power) ==
    [outputs |-> [force_lorentz |-> << N(force) >>, phase_power |-> power]]

SearchOutcomes ==
    { [raised |-> r, results |-> <<>>] : r \in RaisePoints }
    \cup { [raised |-> "none", results |-> q] :
             q \in { <<>>,
                     << SearchStep(5, I3(1, 1, 0)) >>,
                     << SearchStep(2, I3(1, 1, 0)) >>,
                     << SearchStep(5, I3(150, 60, 0)) >> } }

NoMotor == [status |-> "none"]

NoBest ==
    [best_force |-> N(0), best_slot_thickness |-> N(0),
     best_axial_length |-> N(0), best_axial_spacing |-> N(0),
     best_diameter |-> PyNone]

InitSearch ==
    /\ search_pc = "start"
    /\ index = 0
    /\ STEP_SIZE = N(STEP_SIZE_start)
    /\ stall = 0
    /\ best = NoBest
    /\ optimization_results = <<>>
    /\ results_file = [exists |-> FALSE, data |-> <<>>]
    /\ motor = NoMotor
    /\ solver_outcome = NoOutcome

\* a variant of the handler's exit that goes on with the next iteration
ExceptExit_Continue(idx) ==
    IF idx + 1 < SIMULATION_NUM
    THEN [pc |-> "start", index |-> idx + 1]
    ELSE [pc |-> "done", index |-> idx]

\* the `break` that ends the except clause
ExceptExit(idx) == [pc |-> "done", index |-> idx]

\* optimization_results[-1].update({"status": "crashed", "error": str(e)})
Crashed(results, e) ==
    [results EXCEPT
       ![Len(results)] = ("status" :> "crashed") @@ ("error" :> e) @@ @]

\* the except clause: IndexError out of it when the log is still empty
HandleException(e) ==
    IF optimization_results = <<>>
    THEN /\ search_pc' = "aborted"
         /\ UNCHANGED <<index, optimization_results, results_file>>
    ELSE /\ optimization_results' = Crashed(optimization_results, e)
         /\ results_file' = write_output_json(optimization_results')
         /\ search_pc' = ExceptExit(index).pc
         /\ index' = ExceptExit(index).index

\* the head of an iteration: a new motor, its geometry, setup(), the
\* 'started' record and its write
StartIteration ==
    /\ search_pc = "start"
    /\ \E draw \in Draws, o \in SearchOutcomes :
         /\ solver_outcome' = o
         /\ IF o.raised = "Tubular"
            THEN \* outside the try block
                 /\ search_pc' = "aborted"
                 /\ UNCHANGED <<index, optimization_results, results_file,
                                motor>>
            ELSE
              LET geometry ==
                      generate_geometry(STEP_SIZE, Tubular.slot_axial_length,
                                        Tubular.slot_thickness,
                                        Tubular.slot_axial_spacing, draw)
                  diameter == candidate_values[draw.diameter]
                  candidate ==
                      [slot_axial_length  |-> geometry.height,
                       slot_thickness     |-> geometry.radius,
                       slot_axial_spacing |-> Q(13, 10),
                       slot_wire_diameter |-> diameter]
                  test_log ==
                      [iteration          |-> index,
                       slot_axial_length  |-> candidate.slot_axial_length,
                       slot_thickness     |-> candidate.slot_thickness,
                       slot_axial_spacing |-> candidate.slot_axial_spacing,
                       diameter           |-> diameter,
                       status             |-> "started"]
              IN
              /\ motor' = candidate
              /\ IF o.raised = "setup"
                 THEN HandleException("setup")
                 ELSE /\ optimization_results' =
                           Append(optimization_results, test_log)
                      /\ results_file' =
                           write_output_json(optimization_results')
                      /\ search_pc' = "sweep"
                      /\ UNCHANGED index
    /\ UNCHANGED <<STEP_SIZE, stall, best>>
    /\ UNCHANGED notSearch

\* `for step in results`: a raise or the totals
RECURSIVE SearchTotals(_, _, _)
SearchTotals(results, k, acc) ==
    IF k > Len(results) THEN [kind |-> "totals", acc |-> acc]
    ELSE IF "outputs" \notin DOMAIN results[k] THEN [kind |-> "KeyError"]
    ELSE
      LET outputs == results[k].outputs IN
      IF DOMAIN outputs = {} THEN SearchTotals(results, k + 1, acc)
      ELSE IF \/ "force_lorentz" \notin DOMAIN outputs
              \/ "phase_power" \notin DOMAIN outputs
      THEN SearchTotals(results, k + 1, acc)
      ELSE IF outputs.force_lorentz = <<>> THEN [kind |-> "IndexError"]
      ELSE SearchTotals(results, k + 1,
               [total_force |-> NAdd(acc.total_force, outputs.force_lorentz[1]),
                total_power |-> NAdd(acc.total_power, NSum(outputs.phase_power)),
                count |-> acc.count + 1])

\* a variant without the power test
Improved_AnyPower(avg_force, avg_power, best_force) ==
    NGt(avg_force, best_force)

\* `if avg_power > POWER_LIMIT: ... elif avg_force > best_force:` takes the
\* elif branch
Improved(avg_force, avg_power, best_force) ==
    ~NGt(avg_power, N(POWER_LIMIT)) /\ NGt(avg_force, best_force)

\* a variant that halves one stall later
Stalled_Late(count) == count > STALL_MAX

\* `if stall >= STALL_MAX`
Stalled(count) == count >= STALL_MAX

\* the rest of an iteration: alignment, sweep, averages, the 'completed'
\* record and its write, the best so far, the stall counter and the step size
RunIteration ==
    /\ search_pc = "sweep"
    /\ LET scan == SearchTotals(solver_outcome.results, 1,
                       [total_force |-> N(0), total_power |-> N(0),
                        count |-> 0])
       IN
       IF solver_outcome.raised # "none"
       THEN /\ HandleException(solver_outcome.raised)
            /\ UNCHANGED <<STEP_SIZE, stall, best>>
       ELSE IF scan.kind # "totals"
       THEN /\ HandleException(scan.kind)
            /\ UNCHANGED <<STEP_SIZE, stall, best>>
       ELSE
         LET count == scan.acc.count
             avg_force == IF count # 0
                          THEN NDivInt(scan.acc.total_force, count) ELSE N(0)
             avg_power == IF count # 0
                          THEN NDivInt(scan.acc.total_power, count) ELSE N(0)
             improved == Improved(avg_force, avg_power, best.best_force)
             stall1   == IF improved THEN 0 ELSE stall + 1
             halved   == Stalled(stall1)
             step1    == IF halved THEN NDivInt(STEP_SIZE, 2) ELSE STEP_SIZE
         IN
         /\ optimization_results' =
              [optimization_results EXCEPT
                 ![Len(optimization_results)] =
                     [avg_force |-> avg_force,
                      avg_power |-> avg_power,
                      accepted  |-> NLe(avg_power, N(POWER_LIMIT)),
                      status    |-> "completed"] @@ @]
         /\ results_file' = write_output_json(optimization_results')
         /\ best' =
              IF improved
              THEN [best_force          |-> avg_force,
                    best_axial_length   |-> motor.slot_axial_length,
                    best_slot_thickness |-> motor.slot_thickness,
                    best_axial_spacing  |-> motor.slot_axial_spacing,
                    best_diameter       |-> motor.slot_wire_diameter]
              ELSE best
         /\ stall' = IF halved THEN 0 ELSE stall1
         /\ STEP_SIZE' = step1
         /\ IF NLt(step1, MIN_STEP_SIZE)
            THEN search_pc' = "done" /\ UNCHANGED index
            ELSE IF index + 1 < SIMULATION_NUM
            THEN search_pc' = "start" /\ index' = index + 1
            ELSE search_pc' = "done" /\ UNCHANGED index
    /\ UNCHANGED <<motor, solver_outcome>>
    /\ UNCHANGED notSearch

NextSearchLoop ==
    \/ StartIteration
    \/ RunIteration

-----------------------------------------------------------------------------
(* Properties of the random search (checked under SpecSearch) *)

LastRecord == optimization_results[Len(optimization_results)]

SimulationFailed ==
    solver_outcome.raised \in { "setup", "phase_alignment",
                                "rotational_analysis" }

EmptySweepRun ==
    /\ search_pc \in { "start", "done" }
    /\ solver_outcome = [raised |-> "none", results |-> <<>>]

\* C25 (as claimed): an iteration whose sweep is empty is a failure of its
\* candidate: its record is not marked accepted.
C25_EmptySweepNotAccepted ==
    EmptySweepRun =>
        ~("accepted" \in DOMAIN LastRecord /\ LastRecord.accepted)

\* what the search does with an empty sweep: the record is completed and
\* accepted with averages 0.0
C25_EmptySweepAccepted ==
    EmptySweepRun =>
        /\ LastRecord.status = "completed"
        /\ LastRecord.accepted
        /\ LastRecord.avg_force = N(0)
        /\ LastRecord.avg_power = N(0)

\* an iteration with an empty sweep has run after the first one
C25_Reached ==
    /\ EmptySweepRun
    /\ Len(optimization_results) = 2
    /\ LastRecord.status = "completed"

\* C26: best_force never decreases; it changes only in an iteration that
\* completes with avg_power <= POWER_LIMIT and avg_force strictly above the
\* previous best_force, and then best_force and the best geometry are that
\* iteration's avg_force and candidate; a candidate over the power limit
\* never becomes the best.
C26_BestOnlyImproves ==
    [][ /\ ~NLt(best'.best_force, best.best_force)
        /\ best' # best =>
             LET rec == optimization_results'[Len(optimization_results')] IN
             /\ search_pc = "sweep"
             /\ NGt(best'.best_force, best.best_force)
             /\ rec.iteration = index
             /\ rec.status = "completed"
             /\ NLe(rec.avg_power, N(POWER_LIMIT))
             /\ best'.best_force = rec.avg_force
             /\ best'.best_axial_length = rec.slot_axial_length
             /\ best'.best_slot_thickness = rec.slot_thickness
             /\ best'.best_axial_spacing = rec.slot_axial_spacing
             /\ best'.best_diameter = rec.diameter ]_vars

\* C26 witness: the best was set by the first iteration (force 2), kept by
\* a second one over the power limit (force 5), and replaced by a third one
\* within the limit (force 5).
C26_Witness ==
    /\ Len(optimization_results) = 3
    /\ \A k \in 1..3 : optimization_results[k].status = "completed"
    /\ optimization_results[1].avg_force = N(2)
    /\ optimization_results[1].accepted
    /\ ~optimization_results[2].accepted
    /\ optimization_results[2].avg_force = N(5)
    /\ optimization_results[3].accepted
    /\ best.best_force = N(5)
    /\ best.best_axial_length = optimization_results[3].slot_axial_length
    /\ best.best_diameter = optimization_results[3].diameter

\* C28 (as claimed): a record of the search log is changed only in the
\* iteration that appended it and only while it is 'started'; a record
\* marked 'crashed' is the record of the iteration that raised; an
\* exception caught by the handler always leaves such a record.
C28_RecordsChangeInOwnIteration ==
    /\ [][ \A k \in 1..Len(optimization_results) :
             /\ k <= Len(optimization_results')
             /\ optimization_results'[k] # optimization_results[k] =>
                  /\ optimization_results[k].iteration = index
                  /\ optimization_results[k].status = "started"
                  /\ optimization_results'[k].status
                       \in { "completed", "crashed" } ]_vars
    /\ [](\A k \in 1..Len(optimization_results) :
             optimization_results[k].status = "crashed" =>
                optimization_results[k].iteration = index)
    /\ []((search_pc \in { "done", "aborted" } /\ SimulationFailed) =>
             /\ optimization_results # <<>>
             /\ LastRecord.iteration = index
             /\ LastRecord.status = "crashed")

\* what does hold: the same, for iterations in which motor.setup() does
\* not raise
C28_HoldsUnlessSetupRaises ==
    /\ [][ solver_outcome'.raised # "setup" =>
             \A k \in 1..Len(optimization_results) :
               /\ k <= Len(optimization_results')
               /\ optimization_results'[k] # optimization_results[k] =>
                    /\ optimization_results[k].iteration = index
                    /\ optimization_results[k].status = "started"
                    /\ optimization_results'[k].status
                         \in { "completed", "crashed" } ]_vars
    /\ [](solver_outcome.raised # "setup" =>
             \A k \in 1..Len(optimization_results) :
                optimization_results[k].status = "crashed" =>
                   optimization_results[k].iteration = index)
    /\ []((/\ search_pc \in { "done", "aborted" }
           /\ SimulationFailed
           /\ solver_outcome.raised # "setup") =>
             /\ optimization_results # <<>>
             /\ LastRecord.iteration = index
             /\ LastRecord.status = "crashed")

\* motor.setup() raised in the second iteration, and the handler has marked
\* the completed record of the first iteration 'crashed'
C28_Reached ==
    /\ search_pc = "done"
    /\ index = 1
    /\ solver_outcome.raised = "setup"
    /\ Len(optimization_results) = 1
    /\ LastRecord.iteration = 0
    /\ LastRecord.status = "crashed"
    /\ "accepted" \in DOMAIN LastRecord

\* motor.setup() raised in the first iteration: the handler itself raised
\* IndexError on the empty log and nothing was written
C28_FirstIterationReached ==
    /\ search_pc = "aborted"
    /\ index = 0
    /\ solver_outcome.raised = "setup"
    /\ optimization_results = <<>>
    /\ ~results_file.exists

-----------------------------------------------------------------------------
(* Properties of the stall counter and the step size (checked under        *)
(* SpecSearchFair)                                                         *)

\* STEP_SIZE and STALL_MAX as the script sets them
STEP_SIZE_script == 20

STALL_MAX_script == 50

\* the number of halvings that take a step size below MIN_STEP_SIZE
RECURSIVE HalvingsFrom(_)
HalvingsFrom(step_size) ==
    IF NLt(step_size, MIN_STEP_SIZE) THEN 0
    ELSE 1 + HalvingsFrom(NDivInt(step_size, 2))

\* the step completes an iteration: its record becomes 'completed'
CompletesIteration ==
    /\ search_pc = "sweep"
    /\ optimization_results'[Len(optimization_results')].status = "completed"

\* C27: at the end of every iteration 0 <= stall < STALL_MAX; an iteration
\* that improves on the best sets stall to 0, any other raises it by 1, and
\* STEP_SIZE is halved (and stall reset) exactly when stall so reaches
\* STALL_MAX; no other step changes either; the search ends, within
\* SIMULATION_NUM iterations; STEP_SIZE is below MIN_STEP_SIZE only when the
\* search is over and at least STALL_MAX iterations per halving have run;
\* from 20 that is six halvings of 50 iterations each.
C27_StallAndStepSize ==
    /\ [](stall \in 0..(STALL_MAX - 1))
    /\ [](index \in 0..(SIMULATION_NUM - 1))
    /\ [][ IF CompletesIteration
           THEN LET rec == optimization_results'[Len(optimization_results')]
                    improved == /\ NLe(rec.avg_power, N(POWER_LIMIT))
                                /\ NGt(rec.avg_force, best.best_force)
                    raised == IF improved THEN 0 ELSE stall + 1
                IN  /\ STEP_SIZE' = IF raised = STALL_MAX
                                    THEN NDivInt(STEP_SIZE, 2)
                                    ELSE STEP_SIZE
                    /\ stall' = IF raised = STALL_MAX THEN 0 ELSE raised
                    /\ index' \in { index, index + 1 }
                    /\ index' = index => search_pc' = "done"
           ELSE /\ STEP_SIZE' = STEP_SIZE
                /\ stall' = stall
                /\ index' = index ]_vars
    /\ [](NLt(STEP_SIZE, MIN_STEP_SIZE) =>
            /\ search_pc = "done"
            /\ index + 1 >= HalvingsFrom(N(STEP_SIZE_start)) * STALL_MAX)
    /\ []((search_pc = "done" /\ LastRecord.status = "completed"
           /\ index < SIMULATION_NUM - 1) => NLt(STEP_SIZE, MIN_STEP_SIZE))
    /\ <>(search_pc \in { "done", "aborted" })
    /\ HalvingsFrom(N(STEP_SIZE_script)) = 6
    /\ HalvingsFrom(N(STEP_SIZE_script)) * STALL_MAX_script = 300

\* C27 witness: the search has stopped on the step size, after
\* STALL_MAX iterations without improvement for each halving.
C27_Witness ==
    /\ search_pc = "done"
    /\ NLt(STEP_SIZE, MIN_STEP_SIZE)
    /\ LastRecord.status = "completed"
    /\ index + 1 = HalvingsFrom(N(STEP_SIZE_start)) * STALL_MAX
    /\ stall = 0

-----------------------------------------------------------------------------
(* analysis.py *)

WEIGHTS == << 6, 3, -4, -2, -1, -4 >>

\* the keys extract_fitness reads, in its order
FitnessKeys ==
    << "Average Force (N)", "Force Per Watt (N/W)", "Peak-to-Peak Ripple (N)",
       "Inductance (H)", "Resistance (Ohms)", "Time Constant (S)" >>

\* extract_fitness(ind) raises no KeyError
HasFitness(ind) ==
    /\ "fitness" \in DOMAIN ind
    /\ \A k \in 1..Len(FitnessKeys) : FitnessKeys[k] \in DOMAIN ind.fitness

extract_fitness(ind) ==
    [k \in 1..Len(FitnessKeys) |-> ind.fitness[FitnessKeys[k]]]

\* Floats.  score and dominates are where a float's finite significand
\* shows: a product or a sum is the representable value nearest to the exact
\* one, so a term far below the last digit of a sum is lost.  Python's
\* doubles carry 53 bits; the floats here carry Digits decimal digits, which
\* brings the effect into the range of the values the model uses.
Digits == 6

RECURSIVE Pow10(_)
Pow10(k) == IF k = 0 THEN 1 ELSE 10 * Pow10(k - 1)

\* an integer below this bound is a float
MaxMantissa == Pow10(Digits)

\* n / q to the nearest integer, a tie to the even neighbour
RoundDiv(n, q) ==
    LET f  == n \div q
        r2 == 2 * (n - f * q)
    IN  IF r2 < q THEN f
        ELSE IF r2 > q THEN f + 1
        ELSE IF f % 2 = 0 THEN f ELSE f + 1

\* the least k >= 0 with n * 10^k >= 10^(Digits-1) * d
RECURSIVE ScaleUp(_, _, _)
ScaleUp(n, d, k) ==
    IF n * Pow10(k) >= Pow10(Digits - 1) * d THEN k
    ELSE ScaleUp(n, d, k + 1)

\* the least j >= 0 with n < 10^Digits * d * 10^j
RECURSIVE ScaleDown(_, _, _)
ScaleDown(n, d, j) ==
    IF n \div (d * Pow10(j)) < Pow10(Digits) THEN j
    ELSE ScaleDown(n, d, j + 1)

\* the float nearest to x (a value with an eps part is kept as it is)
PyFloat(x) ==
    IF x.b # 0 \/ x.a = 0 THEN x
    ELSE IF x.d = 1 /\ IAbs(x.a) < MaxMantissa THEN x
    ELSE LET n == IAbs(x.a)
             j == ScaleDown(n, x.d, 0)
         IN  IF j > 0 \/ n >= Pow10(Digits - 1) * x.d
             THEN N(ISign(x.a) * RoundDiv(n, x.d * Pow10(j)) * Pow10(j))
             ELSE LET k == ScaleUp(n, x.d, 0) IN
                  Q(ISign(x.a) * RoundDiv(n * Pow10(k), x.d), Pow10(k))

\* a variant that adds the products exactly
score_Exact(ind) ==
    NSum([k \in 1..Len(WEIGHTS) |->
             NMul(N(WEIGHTS[k]), extract_fitness(ind)[k])])

\* sum(w * v for w, v in zip(WEIGHTS, extract_fitness(ind)))
score(ind) ==
    PyFloat(NSum([k \in 1..Len(WEIGHTS) |->
                    PyFloat(NMul(N(WEIGHTS[k]), extract_fitness(ind)[k]))]))

\* a variant without the `any(x > y ...)` part
dominates_Weak(a, b) ==
    \A k \in 1..Len(WEIGHTS) :
        NLe(NMul(N(WEIGHTS[k]), b[k]), NMul(N(WEIGHTS[k]), a[k]))

dominates(a, b) ==
    LET a_vals == [k \in 1..Len(WEIGHTS) |->
                     PyFloat(NMul(N(WEIGHTS[k]), a[k]))]
        b_vals == [k \in 1..Len(WEIGHTS) |->
                     PyFloat(NMul(N(WEIGHTS[k]), b[k]))]
    IN  /\ \A k \in 1..Len(WEIGHTS) : NLe(b_vals[k], a_vals[k])
        /\ \E k \in 1..Len(WEIGHTS) : NGt(a_vals[k], b_vals[k])

\* `for i, ind in enumerate(individuals)`: front gains ind when no other
\* member dominates it
RECURSIVE FrontFrom(_, _, _)
FrontFrom(inds, i, front) ==
    IF i > Len(inds) THEN front
    ELSE IF \E j \in 1..Len(inds) :
               j # i /\ dominates(extract_fitness(inds[j]),
                                  extract_fitness(inds[i]))
    THEN FrontFrom(inds, i + 1, front)
    ELSE FrontFrom(inds, i + 1, Append(front, inds[i]))

\* a variant that also drops a member whose fitness tuple another member
\* repeats
RECURSIVE FrontFrom_NoRepeats(_, _, _)
FrontFrom_NoRepeats(inds, i, front) ==
    IF i > Len(inds) THEN front
    ELSE IF \E j \in 1..Len(inds) :
               /\ j # i
               /\ \/ dominates(extract_fitness(inds[j]),
                               extract_fitness(inds[i]))
                  \/ extract_fitness(inds[j]) = extract_fitness(inds[i])
    THEN FrontFrom_NoRepeats(inds, i + 1, front)
    ELSE FrontFrom_NoRepeats(inds, i + 1, Append(front, inds[i]))

pareto_front_NoRepeats(inds) == FrontFrom_NoRepeats(inds, 1, <<>>)

\* a variant that compares a member with the members listed before it only
RECURSIVE FrontFrom_EarlierOnly(_, _, _)
FrontFrom_EarlierOnly(inds, i, front) ==
    IF i > Len(inds) THEN front
    ELSE IF \E j \in 1..(i - 1) :
               dominates(extract_fitness(inds[j]), extract_fitness(inds[i]))
    THEN FrontFrom_EarlierOnly(inds, i + 1, front)
    ELSE FrontFrom_EarlierOnly(inds, i + 1, Append(front, inds[i]))

pareto_front_EarlierOnly(inds) == FrontFrom_EarlierOnly(inds, 1, <<>>)

pareto_front(inds) == FrontFrom(inds, 1, <<>>)

\* max(individuals, key=score) of a non-empty list: the first of the
\* highest score
RECURSIVE MaxByScore(_, _, _)
MaxByScore(inds, i, top) ==
    IF i > Len(inds) THEN inds[top]
    ELSE IF NGt(score(inds[i]), score(inds[top]))
    THEN MaxByScore(inds, i + 1, i)
    ELSE MaxByScore(inds, i + 1, top)

\* the three nested loops of main, without the filter
RECURSIVE Concat(_)
Concat(seqs) == IF seqs = <<>> THEN <<>> ELSE Head(seqs) \o Concat(Tail(seqs))

AllIndividuals(data) ==
    Concat([m \in 1..Len(data) |->
              Concat([g \in 1..Len(data[m].generations) |->
                        data[m].generations[g].individuals])])

\* a variant of the filter that looks at the status alone
IsValid_StatusOnly(ind) == ind.status = "completed"

\* if ind["status"] == "completed": if all(abs(v) < 1e5 for v in ...)
IsValid(ind) ==
    /\ ind.status = "completed"
    /\ \A k \in 1..Len(FitnessKeys) :
         NLt(NAbs(extract_fitness(ind)[k]), N(100000))

RECURSIVE Filter(_, _, _)
Filter(all, i, kept) ==
    IF i > Len(all) THEN kept
    ELSE IF IsValid(all[i]) THEN Filter(all, i + 1, Append(kept, all[i]))
    ELSE Filter(all, i + 1, kept)

\* main(): what it raises, or what it leaves in `individuals` and writes
main(data) ==
    LET all == AllIndividuals(data) IN
    IF \E i \in 1..Len(all) : all[i].status = "completed" /\ ~HasFitness(all[i])
    THEN Raised("KeyError")
    ELSE
      LET inds == Filter(all, 1, <<>>) IN
      IF inds = <<>> THEN Raised("ValueError")
      ELSE Returned([individuals |-> inds,
                     pareto |-> pareto_front(inds),
                     best   |-> MaxByScore(inds, 2, 1)])

\* the logs main is run on
MaxRecords == 3

AnalysisFitness ==
    { << N(10), N(3), N(1), N(1), N(1), N(1) >>,
      << N(12), N(2), N(1), N(1), N(1), N(1) >>,
      << N(9), N(2), N(2), N(1), N(1), N(1) >>,
      FAILED_FITNESS,
      << N(100000), N(3), N(1), N(1), N(1), N(1) >>,
      << N(99999), N(3), N(1), N(1), N(1), N(1) >>,
      << N(10), N(3), N(1), N(1), N(1), N(-200000) >> }

StartedRecord == StartedLog("bluefin_motor", LowCorner("bluefin_motor"))

AnalysisRecords ==
    { CompletedLog("bluefin_motor", StartedRecord, f) : f \in AnalysisFitness }
    \cup { StartedRecord,
           ("status" :> "crashed") @@ ("error" :> "setup") @@ StartedRecord,
           CompletedLog("bluefin_optimization",
                        StartedLog("bluefin_optimization",
                                   LowCorner("bluefin_optimization")),
                        << N(10), N(3), N(1), N(1) >>) }

\* a log of bluefin_motor.py with the records in one or two generations
LogOf(records) ==
    << [motor_yaml |-> motor_yaml_text,
        generations |->
          IF records = <<>> THEN <<>>
          ELSE IF Len(records) = 1
          THEN << [generation |-> 0, individuals |-> records] >>
          ELSE << [generation |-> 0, individuals |-> << Head(records) >>],
                  [generation |-> 1, individuals |-> Tail(records)] >>] >>

NoFile == [exists |-> FALSE, data |-> <<>>]

InitAnalysis ==
    /\ analysis_pc = "ready"
    /\ input_file \in { write_output_json(LogOf(r)) :
                          r \in SeqsUpTo(AnalysisRecords, MaxRecords) }
    /\ valid = <<>>
    /\ pareto_file = NoFile
    /\ best_file = NoFile

Main ==
    /\ analysis_pc = "ready"
    /\ LET r == main(input_file.data) IN
       IF r.exc # "none"
       THEN /\ analysis_pc' = "raised"
            /\ UNCHANGED <<valid, pareto_file, best_file>>
       ELSE /\ analysis_pc' = "done"
            /\ valid' = r.value.individuals
            /\ pareto_file' = write_output_json(r.value.pareto)
            /\ best_file' = write_output_json(r.value.best)
    /\ UNCHANGED input_file
    /\ UNCHANGED notAnalysis

-----------------------------------------------------------------------------
(* Properties of analysis.main (checked under SpecAnalysis) *)

InputRecords == AllIndividuals(input_file.data)

\* completed, and every one of the six fitness values of magnitude below 1e5
Admissible(rec) ==
    /\ rec.status = "completed"
    /\ HasFitness(rec)
    /\ \A k \in 1..Len(FitnessKeys) :
         /\ NLt(rec.fitness[FitnessKeys[k]], N(100000))
         /\ NLt(N(-100000), rec.fitness[FitnessKeys[k]])

Members(seq) == { seq[i] : i \in 1..Len(seq) }

\* C10: the individuals analysis.main works on are exactly the records of
\* the log that are 'completed' with all six fitness values of magnitude
\* below 1e5, so the written Pareto front and the best individual hold no
\* sentinel record and no 'started' or 'crashed' record.
C10_OnlyAdmissibleRecordsUsed ==
    analysis_pc = "done" =>
        /\ Members(valid) = { rec \in Members(InputRecords) : Admissible(rec) }
        /\ Len(valid) =
             Cardinality({ i \in 1..Len(InputRecords) :
                             Admissible(InputRecords[i]) })
        /\ Members(pareto_file.data) \subseteq Members(valid)
        /\ best_file.data \in Members(valid)
        /\ \A rec \in Members(pareto_file.data) \cup { best_file.data } :
             /\ rec.status = "completed"
             /\ rec.fitness # FailedLog

\* C10 witness: a log with a sentinel record, a started record and an
\* admissible record has been analysed.
C10_Witness ==
    /\ analysis_pc = "done"
    /\ \E rec \in Members(InputRecords) :
         rec.status = "completed" /\ rec.fitness = FailedLog
    /\ \E rec \in Members(InputRecords) : rec.status = "started"
    /\ pareto_file.exists /\ best_file.exists

\* a log of bluefin_motor.py: every completed record has the six values
WellFormedLog ==
    \A rec \in Members(InputRecords) :
        rec.status = "completed" => HasFitness(rec)

SomeAdmissible == \E rec \in Members(InputRecords) : Admissible(rec)

\* C30 (as claimed): on every well-formed log main runs to the end and
\* writes the Pareto-front file and the best-individual file, also when no
\* individual passes the validity filter.
C30_MainAlwaysWritesBothFiles ==
    (analysis_pc # "ready" /\ WellFormedLog) =>
        /\ analysis_pc = "done"
        /\ pareto_file.exists
        /\ best_file.exists

\* what does hold: main writes both files exactly when some individual
\* passes the filter; otherwise max() of the empty list raises before
\* either file is written
C30_WritesBothIffSomeValid ==
    (analysis_pc # "ready" /\ WellFormedLog) =>
        IF SomeAdmissible
        THEN analysis_pc = "done" /\ pareto_file.exists /\ best_file.exists
        ELSE analysis_pc = "raised" /\ ~pareto_file.exists /\ ~best_file.exists

\* main has raised on a log whose individuals are a failed one and a
\* started one
C30_Reached ==
    /\ analysis_pc = "raised"
    /\ WellFormedLog
    /\ Len(InputRecords) = 2
    /\ InputRecords[1].status = "completed"
    /\ InputRecords[1].fitness = FailedLog
    /\ InputRecords[2].status = "started"
    /\ ~pareto_file.exists /\ ~best_file.exists

\* main has raised on a log without generations
C30_NoGenerationsReached ==
    /\ analysis_pc = "raised"
    /\ InputRecords = <<>>
    /\ ~pareto_file.exists /\ ~best_file.exists

-----------------------------------------------------------------------------
(* analysis.main applied to logs of individuals with close fitness         *)

\* fitness tuples: the second differs from the first by a time constant
\* that is 0.001 larger, below the last digit of a score near 60002; the
\* third is better than the first in one objective; the fourth is ordinary
CloseFitness ==
    { << N(10000), N(3), N(1), N(1), N(1), Q(1, 1000) >>,
      << N(10000), N(3), N(1), N(1), N(1), Q(2, 1000) >>,
      << N(9000), N(4), N(1), N(1), N(1), Q(1, 1000) >>,
      << N(10), N(3), N(1), N(1), N(1), N(1) >> }

CloseRecords ==
    { CompletedLog("bluefin_motor", StartedRecord, f) : f \in CloseFitness }

InitClose ==
    /\ analysis_pc = "ready"
    /\ input_file \in { write_output_json(LogOf(r)) :
                          r \in SeqsUpTo(CloseRecords, MaxRecords) }
    /\ valid = <<>>
    /\ pareto_file = NoFile
    /\ best_file = NoFile

-----------------------------------------------------------------------------
(* Properties of the best individual (checked under SpecClose)             *)

\* C29 (as claimed): the individual main writes as best is a member of the
\* Pareto front it writes.
C29_BestIsOnFront ==
    analysis_pc = "done" => best_file.data \in Members(pareto_file.data)

\* what does hold: no valid individual has a higher computed score than
\* the best, and the best is off the front only when an individual that
\* dominates it has the same computed score, the difference of the exact
\* sums being lost in the float
C29_BestHasTopScore ==
    analysis_pc = "done" =>
        /\ best_file.data \in Members(valid)
        /\ \A x \in Members(valid) : NLe(score(x), score(best_file.data))
        /\ best_file.data \notin Members(pareto_file.data) =>
             \E x \in Members(valid) :
                /\ dominates(extract_fitness(x),
                             extract_fitness(best_file.data))
                /\ score(x) = score(best_file.data)
                /\ NGt(score_Exact(x), score_Exact(best_file.data))

\* main has written a best individual that is not on the front it has
\* written
C29_Reached ==
    /\ analysis_pc = "done"
    /\ Len(valid) = 2
    /\ best_file.data = valid[1]
    /\ pareto_file.data = << valid[2] >>

-----------------------------------------------------------------------------
(* analysis.dominates applied to two fitness tuples *)

\* the values an objective takes in the tuples compared
ObjectiveValues == { N(-1), Q(1, 2) }

DominatesFitness ==
    [1..Len(WEIGHTS) -> ObjectiveValues] \cup { FAILED_FITNESS }

InitDominates ==
    /\ dom_pc = "ready"
    /\ dom_a \in DominatesFitness
    /\ dom_b \in DominatesFitness
    /\ dom_result = PyNone

\* dominates(a, b)
Dominates ==
    /\ dom_pc = "ready"
    /\ dom_result' = dominates(dom_a, dom_b)
    /\ dom_pc' = "done"
    /\ UNCHANGED <<dom_a, dom_b>>
    /\ UNCHANGED notDominates

-----------------------------------------------------------------------------
(* Properties of analysis.dominates (checked under SpecDominates) *)

\* x is at least as good as y in objective k: not smaller where the weight
\* is positive, not larger where it is negative
AtLeastAsGood(x, y, k) ==
    IF WEIGHTS[k] > 0 THEN NLe(y[k], x[k]) ELSE NLe(x[k], y[k])

Better(x, y, k) == AtLeastAsGood(x, y, k) /\ x[k] # y[k]

\* C13: dominates(a, a) is false, dominates(a, b) excludes dominates(b, a),
\* and dominates(a, b) holds exactly when a is at least as good as b in every
\* objective under the weight signs and better in at least one.
C13_StrictDominance ==
    dom_pc = "done" =>
        /\ dom_a = dom_b => ~dom_result
        /\ dom_result => ~dominates(dom_b, dom_a)
        /\ dom_result <=>
             /\ \A k \in 1..Len(WEIGHTS) : AtLeastAsGood(dom_a, dom_b, k)
             /\ \E k \in 1..Len(WEIGHTS) : Better(dom_a, dom_b, k)

\* C13 witness: a dominates b, being equal in the maximised objectives and
\* smaller in a minimised one.
C13_Witness ==
    /\ dom_pc = "done"
    /\ dom_result
    /\ dom_a[1] = dom_b[1] /\ dom_a[2] = dom_b[2]
    /\ NLt(dom_a[3], dom_b[3])

-----------------------------------------------------------------------------
(* analysis.pareto_front applied to a list of individuals *)

\* the number of calls on one list
MaxCalls == 2

\* fitness tuples: two that tie, one each of them dominates, one the first
\* dominates in a single objective, and the sentinel
ParetoFitness ==
    { << N(10), N(3), N(1), N(1), N(1), N(1) >>,
      << N(12), N(2), N(1), N(1), N(1), N(1) >>,
      << N(9), N(2), N(2), N(1), N(1), N(1) >>,
      << N(10), N(3), N(1), N(1), N(1), N(2) >>,
      FAILED_FITNESS }

\* completed records of bluefin_motor.py; two candidates share the first
\* fitness tuple
ParetoRecords ==
    { CompletedLog("bluefin_motor", StartedRecord, f) : f \in ParetoFitness }
    \cup { CompletedLog("bluefin_motor",
                        StartedLog("bluefin_motor",
                                   HighCorner("bluefin_motor")),
                        << N(10), N(3), N(1), N(1), N(1), N(1) >>) }

InitPareto ==
    /\ pf_individuals \in SeqsUpTo(ParetoRecords, MaxRecords)
    /\ pf_front = PyNone
    /\ pf_previous = PyNone
    /\ pf_calls = 0

\* pareto = pareto_front(individuals): the list is read, never assigned to
ParetoFront ==
    /\ pf_calls < MaxCalls
    /\ pf_front' = pareto_front(pf_individuals)
    /\ pf_previous' = pf_front
    /\ pf_calls' = pf_calls + 1
    /\ UNCHANGED pf_individuals
    /\ UNCHANGED notPareto

-----------------------------------------------------------------------------
(* Properties of analysis.pareto_front (checked under SpecPareto) *)

\* the positions of the list no other position dominates
Undominated(inds) ==
    { i \in 1..Len(inds) :
        ~\E j \in 1..Len(inds) :
            j # i /\ dominates(extract_fitness(inds[j]),
                               extract_fitness(inds[i])) }

\* neither dominates the other
Tie(x, y) ==
    /\ ~dominates(extract_fitness(x), extract_fitness(y))
    /\ ~dominates(extract_fitness(y), extract_fitness(x))

\* C12: pareto_front returns exactly the members of its input that no other
\* member dominates, each as often as it is listed: no returned member is
\* dominated by a member of the input and every undominated member is
\* returned (the empty list, one member, ties and repeated fitness tuples
\* included).
C12_FrontIsTheUndominated ==
    pf_calls > 0 =>
        /\ Members(pf_front) =
             { pf_individuals[i] : i \in Undominated(pf_individuals) }
        /\ Len(pf_front) = Cardinality(Undominated(pf_individuals))
        /\ \A x \in Members(pf_front) : \A y \in Members(pf_individuals) :
             ~dominates(extract_fitness(y), extract_fitness(x))

\* C12 witness: of three members two tie with different fitness tuples and
\* are both returned; the third is dominated and is not.
C12_Witness ==
    /\ pf_calls > 0
    /\ Len(pf_individuals) = 3
    /\ Tie(pf_individuals[1], pf_individuals[3])
    /\ extract_fitness(pf_individuals[1]) # extract_fitness(pf_individuals[3])
    /\ dominates(extract_fitness(pf_individuals[3]),
                 extract_fitness(pf_individuals[2]))
    /\ pf_front = << pf_individuals[1], pf_individuals[3] >>

\* the same individuals listed in every order
Reorderings(inds) ==
    { [i \in 1..Len(inds) |-> inds[p[i]]] :
        p \in Permutations(1..Len(inds)) }

\* C14: a second call of pareto_front on the same list returns what the
\* first returned; in whatever order the individuals are listed the front
\* holds the same individuals; the call leaves its input as it was.
C14_SameFrontEveryTime ==
    /\ [](pf_calls > 1 => pf_front = pf_previous)
    /\ [](pf_calls > 0 =>
            \A r \in Reorderings(pf_individuals) :
                Members(pareto_front(r)) = Members(pf_front))
    /\ [][pf_individuals' = pf_individuals]_vars

\* C14 witness: pareto_front has been called twice on three individuals of
\* which two, different ones, make the front.
C14_Witness ==
    /\ pf_calls = 2
    /\ Len(pf_individuals) = 3
    /\ Len(pf_front) = 2
    /\ pf_front[1] # pf_front[2]
    /\ pf_previous = pf_front

-----------------------------------------------------------------------------
(* Analysis/weighted_best.py *)

\* (Average Force, Force Per Watt, Average Inductance, Peak-to-Peak Force)
weights_weighted_best == << 5, 2, -1, -1 >>

\* float('-inf')
NegInf == [inf |-> -1]

\* x > y for scores
PyGt(x, y) ==
    IF x = NegInf THEN FALSE
    ELSE IF y = NegInf THEN TRUE
    ELSE NGt(x, y)

\* d.get(key, default)
PyGet(d, key, default) == IF key \in DOMAIN d THEN d[key] ELSE default

\* a variant that pairs the first weight with the force per watt and the
\* second with the average force
calculate_score_Crossed(fitness_data, wts) ==
    NAdd(NAdd(NAdd(NMul(N(wts[2]), PyGet(fitness_data, "Average Force", N(0))),
                   NMul(N(wts[1]), PyGet(fitness_data, "Force Per Watt", N(0)))),
              NMul(N(wts[3]), PyGet(fitness_data, "Average Inductance", N(0)))),
         NMul(N(wts[4]), PyGet(fitness_data, "Peak-to-Peak Force", N(0))))

\* the weighted sum; a value that is no number raises TypeError inside the
\* try and the score is float('-inf')
calculate_score(fitness_data, wts) ==
    LET average_force      == PyGet(fitness_data, "Average Force", N(0))
        force_per_watt     == PyGet(fitness_data, "Force Per Watt", N(0))
        average_inductance == PyGet(fitness_data, "Average Inductance", N(0))
        peak_to_peak_force == PyGet(fitness_data, "Peak-to-Peak Force", N(0))
    IN  IF PyNone \in { average_force, force_per_watt, average_inductance,
                        peak_to_peak_force }
        THEN NegInf
        ELSE NAdd(NAdd(NAdd(NMul(N(wts[1]), average_force),
                            NMul(N(wts[2]), force_per_watt)),
                       NMul(N(wts[3]), average_inductance)),
                  NMul(N(wts[4]), peak_to_peak_force))

\* `for generation in data: for motor in generation.get("individuals", [])`
MotorsOf(data) ==
    Concat([g \in 1..Len(data) |-> PyGet(data[g], "individuals", <<>>)])

\* a variant that passes every status except 'crashed'
IsCompleted_NotCrashed(entry) ==
    "status" \in DOMAIN entry /\ entry.status # "crashed"

\* motor.get("status") == "completed"
IsCompleted(entry) == "status" \in DOMAIN entry /\ entry.status = "completed"

\* the body of the inner loop: acc is (best_motor, best_score)
KeepBest(entry, wts, acc) ==
    IF IsCompleted(entry)
    THEN LET fitness_data == PyGet(entry, "fitness", <<>>)
             current_score == calculate_score(fitness_data, wts)
         IN  IF PyGt(current_score, acc[2]) THEN << entry, current_score >>
             ELSE acc
    ELSE acc

RECURSIVE BestFrom(_, _, _, _)
BestFrom(motors, i, wts, acc) ==
    IF i > Len(motors) THEN acc
    ELSE BestFrom(motors, i + 1, wts, KeepBest(motors[i], wts, acc))

\* returns (best_motor, best_score)
find_best_motor(data, wts) ==
    BestFrom(MotorsOf(data), 1, wts, << PyNone, NegInf >>)

\* the fitness tuples of the logs find_best_motor is run on: the weights'
\* own example, two ordinary ones, one of negative score, one of a magnitude
\* no motor has, and the fitness bluefin_optimization.py gives a failed
\* candidate
ReaderFitness ==
    { << N(10), N(3), Q(1, 100), Q(1, 2) >>,
      << N(12), N(2), Q(1, 100), N(1) >>,
      << N(1), Q(1, 10), Q(1, 100), N(10) >>,
      << N(200000), N(3), N(1), N(1) >>,
      ZERO_FITNESS }

StartedRecord_old ==
    StartedLog("bluefin_optimization", LowCorner("bluefin_optimization"))

ReaderRecords ==
    { CompletedLog("bluefin_optimization", StartedRecord_old, f) :
        f \in ReaderFitness }
    \cup { StartedRecord_old,
           ("status" :> "crashed") @@ ("error" :> "setup")
           @@ StartedRecord_old }

\* a log of bluefin_optimization.py with the records in one or two
\* generations
GenerationsLog(records) ==
    IF records = <<>> THEN <<>>
    ELSE IF Len(records) = 1
    THEN << [generation |-> 0, individuals |-> records] >>
    ELSE << [generation |-> 0, individuals |-> << Head(records) >>],
            [generation |-> 1, individuals |-> Tail(records)] >>

\* the logs: those of bluefin_optimization.py, a generation without
\* individuals, and the log bluefin_motor.py starts with (its one entry has
\* no "individuals")
ReaderLogs ==
    { GenerationsLog(r) : r \in SeqsUpTo(ReaderRecords, MaxRecords) }
    \cup { << [generation |-> 0, individuals |-> <<>>] >>,
           << [motor_yaml |-> motor_yaml_text, generations |-> <<>>] >> }

InitReader ==
    /\ reader_pc = "ready"
    /\ simulation_data \in ReaderLogs
    /\ best_motor = PyNone
    /\ best_score = PyNone

\* best_motor, best_score = find_best_motor(simulation_data, weights)
FindBestMotor ==
    /\ reader_pc = "ready"
    /\ LET r == find_best_motor(simulation_data, weights_weighted_best) IN
       /\ best_motor' = r[1]
       /\ best_score' = r[2]
    /\ reader_pc' = "done"
    /\ UNCHANGED simulation_data
    /\ UNCHANGED notReader

-----------------------------------------------------------------------------
(* Properties of weighted_best.find_best_motor (checked under SpecReader) *)

\* the fitness entry bluefin_optimization.py logs for a failed candidate
ZeroLog == FitnessLog("bluefin_optimization", ZERO_FITNESS)

\* the four values of a fitness entry
FitnessValues(fitness_data) ==
    { fitness_data[k] : k \in DOMAIN fitness_data }

\* C11 (as claimed): the best motor find_best_motor returns is 'completed',
\* does not carry the fitness bluefin_optimization.py writes for a failed or
\* constraint-violating candidate, and has every fitness value of magnitude
\* below 1e5.
C11_BestIsNoFailure ==
    (reader_pc = "done" /\ best_motor # PyNone) =>
        /\ best_motor.status = "completed"
        /\ best_motor.fitness # ZeroLog
        /\ \A v \in FitnessValues(best_motor.fitness) :
             NLt(NAbs(v), N(100000))

\* 5 * Average Force + 2 * Force Per Watt - Average Inductance
\* - Peak-to-Peak Force
WeightedSum(fitness_data) ==
    NSub(NAdd(NMul(N(5), fitness_data["Average Force"]),
              NMul(N(2), fitness_data["Force Per Watt"])),
         NAdd(fitness_data["Average Inductance"],
              fitness_data["Peak-to-Peak Force"]))

\* Average Force 10, Force Per Watt 3, Average Inductance 0.01,
\* Peak-to-Peak Force 0.5
ExampleLog ==
    FitnessLog("bluefin_optimization", << N(10), N(3), Q(1, 100), Q(1, 2) >>)

CompletedMotors ==
    { m \in Members(MotorsOf(simulation_data)) : IsCompleted(m) }

\* C15: with the weights (5, 2, -1, -1) the score of a fitness entry is
\* 5 * force + 2 * force per watt - inductance - ripple, whichever log the
\* entry stands in: the score returned with the best motor is that sum, and
\* the entry (10, 3, 0.01, 0.5) scores 55.49.
C15_ScoreIsWeightedSum ==
    reader_pc = "done" =>
        /\ \A m \in CompletedMotors :
             /\ calculate_score(m.fitness, weights_weighted_best)
                  = WeightedSum(m.fitness)
             /\ m.fitness = ExampleLog =>
                  calculate_score(m.fitness, weights_weighted_best)
                    = Q(5549, 100)
        /\ best_motor # PyNone => best_score = WeightedSum(best_motor.fitness)

\* C15 witness: the entry (10, 3, 0.01, 0.5) is the best of a log that
\* holds another completed motor, with score 55.49.
C15_Witness ==
    /\ reader_pc = "done"
    /\ best_motor # PyNone
    /\ best_motor.fitness = ExampleLog
    /\ best_score = Q(5549, 100)
    /\ Cardinality(CompletedMotors) > 1

\* C16 (as claimed): on a log without a 'completed' individual
\* find_best_motor returns (None, None).
C16_NoCompletedGivesNoneNone ==
    (reader_pc = "done" /\ CompletedMotors = {}) =>
        /\ best_motor = PyNone
        /\ best_score = PyNone

-----------------------------------------------------------------------------
(* The two log readers on logs whose last generation may be incomplete     *)

\* sequences of records in which none but the last is the started one: the
\* loops leave a 'started' record at the end of the last generation only
TailSeqs(completed, started) ==
    { r \in SeqsUpTo(completed \cup { started }, MaxRecords) :
        \A i \in 1..(Len(r) - 1) : r[i] # started }

\* completed records of bluefin_motor.py: two ordinary ones and the sentinel
TailRecords ==
    { CompletedLog("bluefin_motor", StartedRecord, f) :
        f \in { << N(10), N(3), N(1), N(1), N(1), N(1) >>,
                << N(12), N(2), N(1), N(1), N(1), N(1) >>,
                FAILED_FITNESS } }

\* completed records of bluefin_optimization.py: two ordinary ones and the
\* zero fitness
TailRecords_old ==
    { CompletedLog("bluefin_optimization", StartedRecord_old, f) :
        f \in { << N(10), N(3), Q(1, 100), Q(1, 2) >>,
                << N(1), Q(1, 10), Q(1, 100), N(10) >>,
                ZERO_FITNESS } }

InitReaders ==
    /\ analysis_pc = "ready"
    /\ input_file \in { write_output_json(LogOf(r)) :
                          r \in TailSeqs(TailRecords, StartedRecord) }
    /\ valid = <<>>
    /\ pareto_file = NoFile
    /\ best_file = NoFile
    /\ reader_pc = "ready"
    /\ simulation_data \in { GenerationsLog(r) :
                               r \in TailSeqs(TailRecords_old,
                                              StartedRecord_old) }
    /\ best_motor = PyNone
    /\ best_score = PyNone

-----------------------------------------------------------------------------
(* Properties of the readers on incomplete logs (checked under             *)
(* SpecReaders)                                                            *)

\* the last individual of the last generation is still 'started'
TailStarted(gens) ==
    /\ gens # <<>>
    /\ gens[Len(gens)].individuals # <<>>
    /\ LET last == gens[Len(gens)].individuals IN
       last[Len(last)].status = "started"

\* the generations without the last individual of the last generation
WithoutTail(gens) ==
    [gens EXCEPT ![Len(gens)].individuals = SubSeq(@, 1, Len(@) - 1)]

\* C20: on a log whose last individual is still 'started' (no fitness
\* entry) each reader does what it does on the log without that individual:
\* analysis.main raises no KeyError and, when the log holds an admissible
\* completed individual, ends with exactly the admissible ones as its valid
\* individuals; find_best_motor returns the best of the completed ones.
C20_ReadersSkipStartedTail ==
    /\ (analysis_pc # "ready" /\ TailStarted(input_file.data[1].generations))
       =>
        LET data == input_file.data
            cut  == [data EXCEPT ![1].generations = WithoutTail(@)]
            ok   == { rec \in Members(InputRecords) : Admissible(rec) }
        IN  /\ main(data) = main(cut)
            /\ main(data).exc # "KeyError"
            /\ ok # {} => analysis_pc = "done" /\ Members(valid) = ok
            /\ analysis_pc = "raised" => ok = {}
    /\ (reader_pc = "done" /\ TailStarted(simulation_data)) =>
        /\ << best_motor, best_score >>
             = find_best_motor(WithoutTail(simulation_data),
                               weights_weighted_best)
        /\ best_motor # PyNone <=> CompletedMotors # {}
        /\ best_motor # PyNone => best_motor \in CompletedMotors

\* C20 witness: both readers have run on logs that end with a started
\* individual after a completed one, and both used the completed one.
C20_Witness ==
    /\ analysis_pc = "done"
    /\ TailStarted(input_file.data[1].generations)
    /\ valid # <<>>
    /\ best_file.data \in Members(valid)
    /\ reader_pc = "done"
    /\ TailStarted(simulation_data)
    /\ best_motor \in CompletedMotors

-----------------------------------------------------------------------------
(* optimize.py: simulate and evaluateMotor *)

maxPower == 250

maxInductance == Q(1, 10)

maxVoltage == 56

\* return (0.0, 0.0, 0.0)
ZERO_FITNESS_optimize == << N(0), N(0), N(0) >>

\* no try: what setup, phase_alignment or rotational_analysis raises leaves
\* simulate
simulate_optimize(radius, height, outcome) ==
    IF outcome.raised # "none" THEN Raised("Exception")
    ELSE Returned(outcome.results)

\* `for step in results`: a raise, a zero fitness, or the totals
RECURSIVE SumSteps_optimize(_, _, _)
SumSteps_optimize(results, k, acc) ==
    IF k > Len(results) THEN [kind |-> "totals", acc |-> acc]
    ELSE IF \/ "outputs" \notin DOMAIN results[k]
            \/ DOMAIN results[k].outputs = {}
    THEN SumSteps_optimize(results, k + 1, acc)
    ELSE
      LET outputs == results[k].outputs
          voltages == PyGet(outputs, "circuit_voltage", <<>>)
          inductance_vals == PyGet(outputs, "circuit_inductance", <<>>)
      IN
      IF \E j \in 1..Len(voltages) : NGt(NAbs(voltages[j]), N(maxVoltage))
      THEN [kind |-> "failed"]
      ELSE IF \/ "force_lorentz" \notin DOMAIN outputs
              \/ "phase_power" \notin DOMAIN outputs
      THEN SumSteps_optimize(results, k + 1, acc)
      ELSE IF outputs.force_lorentz = <<>> THEN [kind |-> "IndexError"]
      ELSE
        SumSteps_optimize(results, k + 1,
            [total_force |-> NAdd(acc.total_force, outputs.force_lorentz[1]),
             total_power |-> NAdd(acc.total_power, NSum(outputs.phase_power)),
             total_inductance |->
                 NAdd(acc.total_inductance, NSum(inductance_vals)),
             samples |-> acc.samples + 1])

evaluateMotor(individual, outcome) ==
    LET call == simulate_optimize(individual[1], individual[2], outcome)
        results == call.value
    IN
    IF call.exc # "none" THEN Raised(call.exc)
    ELSE IF results = <<>> THEN Raised("IndexError")  \* results[0]
    ELSE
      LET scan == SumSteps_optimize(results, 1,
                      [total_force |-> N(0), total_power |-> N(0),
                       total_inductance |-> N(0), samples |-> 0])
      IN
      IF scan.kind = "failed" THEN Returned(ZERO_FITNESS_optimize)
      ELSE IF scan.kind # "totals" THEN Raised(scan.kind)
      ELSE IF scan.acc.samples = 0 THEN Returned(ZERO_FITNESS_optimize)
      ELSE
        LET acc       == scan.acc
            avg_force == NDivInt(acc.total_force, acc.samples)
            avg_power == NDivInt(acc.total_power, acc.samples)
            avg_inductance ==
                IF ~NIsZero(acc.total_inductance)
                THEN NDivInt(acc.total_inductance, acc.samples)
                ELSE N(0)
        IN
        IF \/ NLe(N(maxPower), avg_power)
           \/ NGt(avg_inductance, maxInductance)
        THEN Returned(ZERO_FITNESS_optimize)
        ELSE Returned(<< avg_power, avg_force, avg_inductance >>)

-----------------------------------------------------------------------------
(* The fitness weights of the four scripts, and toolbox.evaluate applied   *)
(* to two candidates                                                       *)

weights_bluefin_motor == << N(6), N(3), N(-4), N(-2), N(-1), N(-4) >>

weights_bluefin_optimization == << N(5), N(2), N(-3), N(-2) >>

weights_simple_deap == << N(1), N(5), N(-1) >>

\* weights=(1e-9, 5, -1)
weights_optimize == << EPSILON, N(5), N(-1) >>

AllScripts == Scripts \cup { "optimize" }

WeightsOf(s) ==
    CASE s = "bluefin_motor" -> weights_bluefin_motor
      [] s = "bluefin_optimization" -> weights_bluefin_optimization
      [] s = "simple_deap_optimization" -> weights_simple_deap
      [] s = "optimize" -> weights_optimize

\* the fitness the script returns for a failed or constraint-violating
\* candidate
FailureFitness(s) ==
    CASE s = "bluefin_motor" -> FAILED_FITNESS
      [] s = "bluefin_optimization" -> ZERO_FITNESS
      [] s = "simple_deap_optimization" -> ZERO_FITNESS_simple_deap
      [] s = "optimize" -> ZERO_FITNESS_optimize

\* toolbox.evaluate on a candidate of the first population
EvaluateOf(s, outcome) ==
    IF s = "optimize"
    THEN evaluateMotor(<< Q(35, 100), Q(35, 100) >>, outcome)
    ELSE evaluate(s, LowCorner(s), outcome)

\* one-step sweeps: within the limits, with the force reversed, above every
\* script's power limit, above every script's voltage limit, above every
\* script's inductance limit
FitnessSteps(s) ==
    LET base == IF s = "bluefin_motor" THEN GoodStep ELSE GoodStep_old IN
    { base,
      [base EXCEPT !.outputs.force_lorentz = << N(-5) >>],
      [base EXCEPT !.outputs.phase_power = I3(150, 150, 150)],
      [base EXCEPT !.outputs.phase_voltage = I3(60, -30, -30)],
      [base EXCEPT !.outputs.phase_inductance =
                      << Q(1, 5), Q(1, 5), Q(1, 5) >>] }

FitnessOutcomes(s) ==
    { [raised |-> "setup", results |-> <<>>] }
    \cup { [raised |-> "none", results |-> << st >>] : st \in FitnessSteps(s) }

InitFitness ==
    /\ fit_script \in AllScripts
    /\ fit_pc = "ready"
    /\ fit_sweeps \in [1..2 -> FitnessOutcomes(fit_script)]
    /\ fits = <<>>

\* the evaluation of two offspring; an exception that leaves evaluate ends
\* the script
EvaluateOffspring ==
    /\ fit_pc = "ready"
    /\ LET r == [i \in 1..2 |-> EvaluateOf(fit_script, fit_sweeps[i])] IN
       IF \E i \in 1..2 : r[i].exc # "none"
       THEN /\ fit_pc' = "aborted"
            /\ UNCHANGED fits
       ELSE /\ fit_pc' = "done"
            /\ fits' = [i \in 1..2 |-> r[i].value]
    /\ UNCHANGED <<fit_script, fit_sweeps>>
    /\ UNCHANGED notFitness

-----------------------------------------------------------------------------
(* Properties of the failure fitness (checked under SpecFitness) *)

\* a value as a quotient num/den with den > 0
AsQuotient(x) ==
    IF "num" \in DOMAIN x THEN x ELSE [num |-> x, den |-> N(1)]

\* x * y where at most one of the two has an eps part
NTimes(x, y) == Norm(x.a * y.a, x.a * y.b + x.b * y.a, x.d * y.d)

\* x <= y for values without eps part: by their integer parts, then by
\* what is left
PlainLe(x, y) ==
    LET fx == x.a \div x.d
        fy == y.a \div y.d
    IN  IF fx # fy THEN fx < fy
        ELSE (x.a - fx * x.d) * y.d <= (y.a - fy * y.d) * x.d

\* x <= y for values and quotients
VLe(x, y) ==
    IF "num" \notin DOMAIN x /\ "num" \notin DOMAIN y
    THEN PlainLe(x, y)
    ELSE NLe(NTimes(AsQuotient(x).num, AsQuotient(y).den),
             NTimes(AsQuotient(y).num, AsQuotient(x).den))

\* x is no better than y in objective k of script s
NoBetter(s, x, y, k) ==
    IF NSign(WeightsOf(s)[k]) > 0 THEN VLe(x[k], y[k]) ELSE VLe(y[k], x[k])

\* x dominates y under the weights of script s
DominatesIn(s, x, y) ==
    /\ \A k \in 1..Len(WeightsOf(s)) : NoBetter(s, y, x, k)
    /\ \E k \in 1..Len(WeightsOf(s)) : ~NoBetter(s, x, y, k)

\* C17 (as claimed): in each script the fitness of a failed or
\* constraint-violating candidate is no better than a successfully evaluated
\* candidate's in any objective under the script's weight signs, and does
\* not dominate it.
C17_FailureFitnessIsPenalised ==
    (/\ fit_pc = "done"
     /\ fits[1] = FailureFitness(fit_script)
     /\ fits[2] # FailureFitness(fit_script)) =>
        /\ \A k \in 1..Len(WeightsOf(fit_script)) :
             NoBetter(fit_script, fits[1], fits[2], k)
        /\ ~DominatesIn(fit_script, fits[1], fits[2])

\* the sweep of candidate i has a step with a phase voltage of magnitude
\* above maxVoltage
OverVoltage(i) ==
    \E k \in 1..Len(fit_sweeps[i].results) :
        LET v == fit_sweeps[i].results[k].outputs.phase_voltage IN
        \E j \in 1..Len(v) : NGt(NAbs(v[j]), N(maxVoltage))

\* the sweep of candidate i has an average over the steps of the summed
\* phase inductance above maxInductance
OverInductance(i) ==
    LET results == fit_sweeps[i].results
        total == NSum([k \in 1..Len(results) |->
                         NSum(results[k].outputs.phase_inductance)])
    IN  results # <<>> /\ NGt(NDivInt(total, Len(results)), maxInductance)

\* C24 (as claimed): in optimize.py a candidate whose sweep has a phase
\* voltage of magnitude above maxVoltage, or an average phase inductance
\* above maxInductance, gets the failure fitness (0.0, 0.0, 0.0).
C24_RequestedOutputsConstrained ==
    (fit_script = "optimize" /\ fit_pc = "done") =>
        \A i \in 1..2 :
            (OverVoltage(i) \/ OverInductance(i)) =>
                fits[i] = ZERO_FITNESS_optimize

\* what optimize.py does: the voltage and the inductance of the sweep have
\* no effect; the fitness is (avg_power, avg_force, 0) unless the power is
\* at or above maxPower
C24_VoltageAndInductanceIgnored ==
    (fit_script = "optimize" /\ fit_pc = "done") =>
        \A i \in 1..2 :
            LET step == fit_sweeps[i].results[1].outputs
                power == NSum(step.phase_power)
            IN  fits[i] = IF NLe(N(maxPower), power)
                          THEN ZERO_FITNESS_optimize
                          ELSE << power, step.force_lorentz[1], N(0) >>

\* optimize.py has evaluated a candidate over the voltage limit and one over
\* the inductance limit, neither to the failure fitness
C24_Reached ==
    /\ fit_script = "optimize"
    /\ fit_pc = "done"
    /\ OverVoltage(1) /\ fits[1] # ZERO_FITNESS_optimize
    /\ OverInductance(2) /\ fits[2] # ZERO_FITNESS_optimize

-----------------------------------------------------------------------------
(* Specifications *)

IdleEval ==
    /\ ev_pc = "idle"
    /\ ev_individual = <<>>
    /\ ev_outcome = NoOutcome
    /\ ev_result = NoResult

IdleLoop ==
    /\ script = "none"
    /\ pc = "idle"
    /\ generation = 0
    /\ population = <<>>
    /\ offspring = <<>>
    /\ cursor = 0
    /\ generation_data = [generation |-> 0, individuals |-> <<>>]
    /\ result_output = <<>>
    /\ stored = [exists |-> FALSE, data |-> <<>>]
    /\ simulator = <<>>

IdleSearch ==
    /\ search_pc = "idle"
    /\ index = 0
    /\ STEP_SIZE = N(0)
    /\ stall = 0
    /\ best = NoBest
    /\ optimization_results = <<>>
    /\ results_file = [exists |-> FALSE, data |-> <<>>]
    /\ motor = NoMotor
    /\ solver_outcome = NoOutcome

IdleAnalysis ==
    /\ analysis_pc = "idle"
    /\ input_file = NoFile
    /\ valid = <<>>
    /\ pareto_file = NoFile
    /\ best_file = NoFile

IdleReader ==
    /\ reader_pc = "idle"
    /\ simulation_data = <<>>
    /\ best_motor = PyNone
    /\ best_score = PyNone

IdlePareto ==
    /\ pf_individuals = <<>>
    /\ pf_front = PyNone
    /\ pf_previous = PyNone
    /\ pf_calls = MaxCalls

IdleDominates ==
    /\ dom_pc = "idle"
    /\ dom_a = <<>>
    /\ dom_b = <<>>
    /\ dom_result = PyNone

IdleFitness ==
    /\ fit_script = "none"
    /\ fit_pc = "idle"
    /\ fit_sweeps = <<>>
    /\ fits = <<>>

\* the generation loop of bluefin_motor.py
Init ==
    /\ InitLoop
    /\ IdleEval /\ IdleSearch /\ IdleAnalysis /\ IdleReader /\ IdlePareto
    /\ IdleDominates /\ IdleFitness

Next == NextLoop

Spec == Init /\ [][Next]_vars

\* the generation loops of the three scripts
InitAllLoops ==
    /\ InitLoops
    /\ IdleEval /\ IdleSearch /\ IdleAnalysis /\ IdleReader /\ IdlePareto
    /\ IdleDominates /\ IdleFitness

NextLoops == NextLoop

SpecLoops == InitAllLoops /\ [][NextLoops]_vars

\* evaluate_motor applied to one candidate and one simulator outcome
InitEvalOnly ==
    /\ InitEval
    /\ IdleLoop /\ IdleSearch /\ IdleAnalysis /\ IdleReader /\ IdlePareto
    /\ IdleDominates /\ IdleFitness

NextEval == Evaluate

SpecEval == InitEvalOnly /\ [][NextEval]_vars

\* the random search of force_random_search.py
InitSearchOnly ==
    /\ InitSearch
    /\ IdleEval /\ IdleLoop /\ IdleAnalysis /\ IdleReader /\ IdlePareto
    /\ IdleDominates /\ IdleFitness

NextSearch == NextSearchLoop

SpecSearch == InitSearchOnly /\ [][NextSearch]_vars

\* analysis.main applied to one run log
InitAnalysisOnly ==
    /\ InitAnalysis
    /\ IdleEval /\ IdleLoop /\ IdleSearch /\ IdleReader /\ IdlePareto
    /\ IdleDominates /\ IdleFitness

NextAnalysis == Main

SpecAnalysis == InitAnalysisOnly /\ [][NextAnalysis]_vars

\* weighted_best.find_best_motor applied to one run log
InitReaderOnly ==
    /\ InitReader
    /\ IdleEval /\ IdleLoop /\ IdleSearch /\ IdleAnalysis /\ IdlePareto
    /\ IdleDominates /\ IdleFitness

NextReader == FindBestMotor

SpecReader == InitReaderOnly /\ [][NextReader]_vars

\* analysis.pareto_front applied to one list, MaxCalls times
InitParetoOnly ==
    /\ InitPareto
    /\ IdleEval /\ IdleLoop /\ IdleSearch /\ IdleAnalysis /\ IdleReader
    /\ IdleDominates /\ IdleFitness

NextPareto == ParetoFront

SpecPareto == InitParetoOnly /\ [][NextPareto]_vars

\* analysis.dominates applied to one pair of fitness tuples
InitDominatesOnly ==
    /\ InitDominates
    /\ IdleEval /\ IdleLoop /\ IdleSearch /\ IdleAnalysis /\ IdleReader
    /\ IdlePareto /\ IdleFitness

NextDominates == Dominates

SpecDominates == InitDominatesOnly /\ [][NextDominates]_vars

\* each script's toolbox.evaluate applied to two candidates
InitFitnessOnly ==
    /\ InitFitness
    /\ IdleEval /\ IdleLoop /\ IdleSearch /\ IdleAnalysis /\ IdleReader
    /\ IdlePareto /\ IdleDominates

NextFitness == EvaluateOffspring

SpecFitness == InitFitnessOnly /\ [][NextFitness]_vars

\* analysis.main and weighted_best.find_best_motor, each on a log that may
\* end with a started individual
InitReadersOnly ==
    /\ InitReaders
    /\ IdleEval /\ IdleLoop /\ IdleSearch /\ IdlePareto /\ IdleDominates
    /\ IdleFitness

NextReaders ==
    \/ Main
    \/ FindBestMotor

SpecReaders == InitReadersOnly /\ [][NextReaders]_vars

\* evaluate_motor of bluefin_motor.py on sweeps with incomplete steps
InitChannelsOnly ==
    /\ InitChannels
    /\ IdleLoop /\ IdleSearch /\ IdleAnalysis /\ IdleReader /\ IdlePareto
    /\ IdleDominates /\ IdleFitness

NextChannels == Evaluate

SpecChannels == InitChannelsOnly /\ [][NextChannels]_vars

\* evaluate_motor of bluefin_motor.py on sweeps with small and zero currents
InitCurrentsOnly ==
    /\ InitCurrents
    /\ IdleLoop /\ IdleSearch /\ IdleAnalysis /\ IdleReader /\ IdlePareto
    /\ IdleDominates /\ IdleFitness

NextCurrents == Evaluate

SpecCurrents == InitCurrentsOnly /\ [][NextCurrents]_vars

\* the generation loop of bluefin_optimization.py from its first clamp on
InitClampStageOnly ==
    /\ InitClampStage
    /\ IdleEval /\ IdleSearch /\ IdleAnalysis /\ IdleReader /\ IdlePareto
    /\ IdleDominates /\ IdleFitness

NextClampStage == NextLoop

SpecClampStage == InitClampStageOnly /\ [][NextClampStage]_vars

\* the interpreter goes on to the next statement while the script has not
\* ended: every step of the loop moves search_pc
Proceed ==
    /\ search_pc \in { "start", "sweep" }
    /\ search_pc' \in { "start", "sweep", "done", "aborted" }

\* force_random_search.py, a script that keeps running until it ends
SpecSearchFair ==
    InitSearchOnly /\ [][NextSearch]_vars /\ WF_search_pc(Proceed)

\* analysis.main on logs of individuals with close fitness
InitCloseOnly ==
    /\ InitClose
    /\ IdleEval /\ IdleLoop /\ IdleSearch /\ IdleReader /\ IdlePareto
    /\ IdleDominates /\ IdleFitness

NextClose == Main

SpecClose == InitCloseOnly /\ [][NextClose]_vars

====
